---------------------------- MODULE Spec2Model ----------------------------
(***************************************************************************)
(* A model of the acquisition layer of irminsul:                           *)
(*   - the Wish URL monitor               (src/src/wish.rs)                *)
(*   - the multi-device capture backend   (src/src/capture/pcap_backend.rs)*)
(* Each component has its own specification over the shared variables; a   *)
(* component's actions leave the other component's variables unchanged.    *)
(***************************************************************************)
EXTENDS Integers, Sequences, FiniteSets, TLC

(***************************************************************************)
(* Bounds of the model.                                                    *)
(***************************************************************************)
MaxLogLines == 2    \* lines of output_log.txt that a scan reads
MaxCacheToks == 2   \* pattern-relevant pieces of the cache file data_2
MaxMtime == 2       \* modification times are 0 (UNIX_EPOCH) .. MaxMtime
MaxPending == 2     \* events sent by the debouncer and not yet handled
MaxDevices == 2     \* devices Device::list() returns
MaxReads == 3       \* packets the devices deliver in all
MaxStream == 3      \* packets the kernel monitor's stream is given in all
MaxAvatars == 2     \* avatars of a process_characters call
MaxItems == 2       \* items of a process_items call

(***************************************************************************)
(* Option<T>: None is the empty tuple, Some(x) the one-element tuple.      *)
(***************************************************************************)
None == << >>
Some(x) == << x >>

RECURSIVE SeqsUpTo(_, _)
SeqsUpTo(S, n) ==
    IF n = 0 THEN { << >> }
    ELSE LET shorter == SeqsUpTo(S, n - 1)
         IN  shorter \cup { Append(s, x) : s \in { t \in shorter : Len(t) = n - 1 }, x \in S }

(***************************************************************************)
(* WISH MONITOR: the files it reads.                                       *)
(***************************************************************************)
DataDirs == { "d1" }            \* text a log line matches game_data_re with
SubDirs == { "s1", "s2" }       \* names of children of <data dir>/webCaches
Urls == { "u1", "u2" }          \* texts that match url_re

\* output_log_path(): the one fixed log path.
LogPath == << "output_log.txt" >>

\* get_web_cache_path: <dir found under webCaches> + "Cache/Cache_Data/data_2".
CachePath(d, s) == << d, "webCaches", s, "Cache/Cache_Data/data_2" >>

CachePaths == { CachePath(d, s) : d \in DataDirs, s \in SubDirs }

\* A line of the log: one that game_data_re does not match, one that is not
\* valid UTF-8 (next_line fails on it), or one whose first match is the data
\* directory d.
LogLines == { "noise", "badutf8" } \cup DataDirs

LogFiles ==
    { [exists |-> FALSE, lines |-> << >>] }
      \cup { [exists |-> TRUE, lines |-> l] : l \in SeqsUpTo(LogLines, MaxLogLines) }

\* A child of webCaches.
Entries == [ name : SubDirs, is_dir : BOOLEAN, mtime : 0 .. MaxMtime ]

\* read_dir(webCaches): unreadable, or its children in the order read_dir
\* yields them (names are distinct).
Listings ==
    { [readable |-> FALSE, entries |-> << >>] }
      \cup { [readable |-> TRUE, entries |-> e] :
               e \in { s \in SeqsUpTo(Entries, Cardinality(SubDirs)) :
                         \A i, j \in 1 .. Len(s) : i # j => s[i].name # s[j].name } }

\* The bytes of data_2, as the pieces url_re sees: text it does not match
\* ("junk") and non-overlapping matches, in file order.
CacheFiles ==
    { [exists |-> FALSE, toks |-> << >>] }
      \cup { [exists |-> TRUE, toks |-> t] : t \in SeqsUpTo({ "junk" } \cup Urls, MaxCacheToks) }

\* What validate_url meets, in the order it checks: Url::parse_with_params,
\* reqwest::get, error_for_status, json(), retcode.
Responses ==
    { "parse_error", "net_error", "http_error", "json_error", "retcode_nonzero", "retcode_zero" }

(***************************************************************************)
(* WISH MONITOR: pure functions.                                           *)
(***************************************************************************)
RECURSIVE ScanLines(_, _)
\* The while loop of get_data_dir from line i on.
ScanLines(lines, i) ==
    IF i > Len(lines) THEN [ok |-> FALSE, val |-> "", err |-> "no game data path"]
    ELSE IF lines[i] = "badutf8" THEN [ok |-> FALSE, val |-> "", err |-> "next_line"]
    ELSE IF lines[i] # "noise" THEN [ok |-> TRUE, val |-> lines[i], err |-> ""]
    ELSE ScanLines(lines, i + 1)

GetDataDir(log) ==
    IF ~log.exists THEN [ok |-> FALSE, val |-> "", err |-> "could not open log"]
    ELSE ScanLines(log.lines, 1)

RECURSIVE LatestDir(_, _, _)
\* The while loop of get_web_cache_dir from entry i on; latest is latest_dir.
LatestDir(entries, i, latest) ==
    IF i > Len(entries) THEN latest
    ELSE IF ~entries[i].is_dir THEN LatestDir(entries, i + 1, latest)
    ELSE IF entries[i].mtime > latest.mtime
         THEN LatestDir(entries, i + 1, [mtime |-> entries[i].mtime, dir |-> Some(entries[i].name)])
         ELSE LatestDir(entries, i + 1, latest)

GetWebCacheDir(listing) ==
    IF ~listing.readable THEN [ok |-> FALSE, val |-> None, err |-> "could not open directory"]
    ELSE LET latest == LatestDir(listing.entries, 1, [mtime |-> 0, dir |-> None])
         IN  IF latest.dir = None
             THEN [ok |-> FALSE, val |-> None, err |-> "unable to find directory"]
             ELSE [ok |-> TRUE, val |-> latest.dir, err |-> ""]

GetWebCachePath(log, listing) ==
    LET data_dir == GetDataDir(log)
    IN  IF ~data_dir.ok THEN [ok |-> FALSE, path |-> None, err |-> data_dir.err]
        ELSE LET dir == GetWebCacheDir(listing)
             IN  IF ~dir.ok THEN [ok |-> FALSE, path |-> None, err |-> dir.err]
                 ELSE [ok |-> TRUE, path |-> Some(CachePath(data_dir.val, dir.val[1])), err |-> ""]

\* Faulty variant: the first match is taken.
ExtractUrl_First(cache) ==
    IF ~cache.exists THEN [read |-> FALSE, url |-> None]
    ELSE LET matches == SelectSeq(cache.toks, LAMBDA t : t \in Urls)
         IN  [read |-> TRUE,
              url |-> IF matches = << >> THEN None ELSE Some(matches[1])]

\* fs::read + captures_iter(..).last(): read is whether the file could be
\* read, url the last match.
ExtractUrl(cache) ==
    IF ~cache.exists THEN [read |-> FALSE, url |-> None]
    ELSE LET matches == SelectSeq(cache.toks, LAMBDA t : t \in Urls)
         IN  [read |-> TRUE,
              url |-> IF matches = << >> THEN None ELSE Some(matches[Len(matches)])]

\* validate_url: net is whether the request was sent.
ValidateUrl(resp) ==
    [ok |-> resp = "retcode_zero", net |-> resp # "parse_error"]

\* Every outcome the discovery step and the extraction step can have on the
\* files above.
DiscoveryResults == { GetWebCachePath(log, listing) : log \in LogFiles, listing \in Listings }

ExtractResults == { ExtractUrl(cache) : cache \in CacheFiles }


(***************************************************************************)
(* MULTI-DEVICE BACKEND: state.                                            *)
(***************************************************************************)
VARIABLES
    bpc,          \* PcapBackend::new: "init" before, "ok" or "failed" after
    enumeration,  \* what Device::list() returned to new
    new_err,      \* the error new returned (None: none)
    setup_tried,  \* the devices new passed to setup_device_capture
    thr,          \* the capture threads, in the order new spawned them
    packet_q,     \* the items in the channel packet_tx -> packet_rx
    rx_open,      \* whether packet_rx (the PcapBackend) is still alive
    delivered,    \* the packets and errors next_packet has returned, in order
    last_ret,     \* what the last call of next_packet returned
    enq           \* the items the channel accepted, in order

pcapVars ==
    << bpc, enumeration, new_err, setup_tried, thr, packet_q, rx_open, delivered,
       last_ret, enq >>

(***************************************************************************)
(* WISH MONITOR: state.                                                    *)
(***************************************************************************)
VARIABLES
    wpc,             \* where the task of start_async_runtime that runs the monitor is
    web_cache_path,  \* Wish.web_cache_path: Option<PathBuf>
    prev_url,        \* Wish.prev_url: String
    url_tx,          \* the value held by the watch channel of url_tx
    watched,         \* the paths registered with debouncer.watcher()
    file_events,     \* the batches waiting in the mpsc channel file_events
    batch,           \* the events of the received batch not yet handled
    last_read,       \* the previous read of a cache file: path, URL extracted, outcome
    step             \* what the last step did (a record of it, for the properties)

wishVars ==
    << wpc, web_cache_path, prev_url, url_tx, watched, file_events, batch,
       last_read, step >>

(***************************************************************************)
(* DISCOVERY FUNCTIONS: one call of get_data_dir, get_web_cache_dir or     *)
(* handle_web_cache_dir_update on given files, and what it returns.        *)
(***************************************************************************)
VARIABLES
    probe,   \* the function called and the files (and state) it is called on
    result   \* None before the call, Some(what it returned) after

probeVars == << probe, result >>

(***************************************************************************)
(* KERNEL-MONITOR BACKEND: state.                                          *)
(***************************************************************************)
VARIABLES
    pm_pc,         \* PktmonBackend::new: "init" before; "ok", "failed" or "panicked" after
    pm_os,         \* what the session, the two filters and the stream did in new
    pm_filters,    \* the ports of the filters installed on the capture
    pm_err,        \* the error new returned (None: none)
    stream,        \* PktmonBackend.stream: the packets it has ready, oldest first
    stream_ended,  \* whether the capture behind the stream has ended
    pm_seen,       \* the packets the stream has been given, in order
    pm_delivered,  \* the payloads next_packet has returned, in order
    pm_last        \* what the last call of next_packet returned

pktmonVars ==
    << pm_pc, pm_os, pm_filters, pm_err, stream, stream_ended, pm_seen, pm_delivered,
       pm_last >>

(***************************************************************************)
(* APPLICATION: the runtime of start_async_runtime and the task of the     *)
(* capture monitor (the task of the Wish monitor is wpc).                  *)
(***************************************************************************)
VARIABLES
    rt,    \* the tokio runtime: "running", or "dropped" once block_on has returned
    mon    \* Monitor: "init" before Monitor::new, then "running", "failed" or "ended"

appVars == << rt, mon >>

(***************************************************************************)
(* PLAYER DATA: state.                                                     *)
(***************************************************************************)
VARIABLES
    characters,                 \* PlayerData.characters
    items,                      \* PlayerData.items
    character_equip_guid_map,   \* PlayerData.character_equip_guid_map
    exported                    \* the last export_genshin_optimizer_artifacts of the data
                                \* as they are (None: none since they changed)

playerVars == << characters, items, character_equip_guid_map, exported >>

vars == << wishVars, pcapVars, probeVars, pktmonVars, appVars, playerVars >>

\* The record of a step in which handle_web_cache_dir_update was not called.
NoRead == [ path |-> None, url |-> None, failed |-> FALSE ]

NoCall ==
    [ invoked |-> FALSE, path |-> None, read |-> FALSE, ext |-> None, prev_read |-> NoRead,
      prev_url_before |-> "", url_tx_before |-> None, watched_before |-> {},
      validated |-> FALSE, net |-> FALSE, valid |-> FALSE, sent |-> FALSE, ret |-> "" ]

NoStep(op) ==
    [ op |-> op, path |-> None, found |-> FALSE, wops |-> << >>, call |-> NoCall, err |-> "" ]

\* The fields of Wish the handlers read and write, with the watcher's paths.
WishState ==
    [ web_cache_path |-> web_cache_path, prev_url |-> prev_url, url_tx |-> url_tx,
      watched |-> watched ]

(***************************************************************************)
(* WISH MONITOR: the handlers, as functions of the state and of what the   *)
(* files and the network answer during the call.                           *)
(***************************************************************************)
\* The record of a call of handle_web_cache_dir_update on entry: the state it
\* finds, and what the previous read of a cache file gave.
CallEntry(st, prev_read) ==
    [ NoCall EXCEPT !.invoked = TRUE, !.path = st.web_cache_path, !.prev_read = prev_read,
                    !.prev_url_before = st.prev_url, !.url_tx_before = st.url_tx,
                    !.watched_before = st.watched, !.ret = "Ok" ]

\* handle_web_cache_dir_update up to the comparison with prev_url: the early
\* returns, or "go on" with the record so far.
BeforeCompare(st, prev_read, ext) ==
    LET entry == CallEntry(st, prev_read)
    IN  IF st.web_cache_path = None
        THEN [ done |-> TRUE, call |-> entry ]
        ELSE IF ~ext.read
        THEN [ done |-> TRUE, call |-> [ entry EXCEPT !.ret = "could not open file" ] ]
        ELSE IF ext.url = None
        THEN [ done |-> TRUE, call |-> [ entry EXCEPT !.read = TRUE, !.ret = "Can't find URL" ] ]
        ELSE [ done |-> FALSE, call |-> [ entry EXCEPT !.read = TRUE, !.ext = ext.url ] ]

\* Faulty variant: the URL is sent and recorded whatever validate_url returns.
HandleWebCacheDirUpdate_PublishUnvalidated(st, prev_read, ext, resp) ==
    LET b == BeforeCompare(st, prev_read, ext)
        v == ValidateUrl(resp)
    IN  IF b.done \/ ext.url[1] = st.prev_url
        THEN [ st |-> st, call |-> b.call ]
        ELSE [ st |-> [ st EXCEPT !.prev_url = ext.url[1], !.url_tx = ext.url ],
               call |-> [ b.call EXCEPT !.validated = TRUE, !.net = v.net, !.valid = v.ok,
                                        !.sent = TRUE ] ]

\* Faulty variant: prev_url is not recorded after a publication.
HandleWebCacheDirUpdate_ForgetPrevUrl(st, prev_read, ext, resp) ==
    LET b == BeforeCompare(st, prev_read, ext)
        v == ValidateUrl(resp)
        tried == [ b.call EXCEPT !.validated = TRUE, !.net = v.net ]
    IN  IF b.done \/ ext.url[1] = st.prev_url
        THEN [ st |-> st, call |-> b.call ]
        ELSE IF ~v.ok
        THEN [ st |-> st, call |-> [ tried EXCEPT !.ret = "validation failed" ] ]
        ELSE [ st |-> [ st EXCEPT !.url_tx = ext.url ],
               call |-> [ tried EXCEPT !.valid = TRUE, !.sent = TRUE ] ]

\* Faulty variant: no comparison with prev_url.
HandleWebCacheDirUpdate_NoCompare(st, prev_read, ext, resp) ==
    LET b == BeforeCompare(st, prev_read, ext)
        v == ValidateUrl(resp)
        tried == [ b.call EXCEPT !.validated = TRUE, !.net = v.net ]
    IN  IF b.done
        THEN [ st |-> st, call |-> b.call ]
        ELSE IF ~v.ok
        THEN [ st |-> st, call |-> [ tried EXCEPT !.ret = "validation failed" ] ]
        ELSE [ st |-> [ st EXCEPT !.prev_url = ext.url[1], !.url_tx = ext.url ],
               call |-> [ tried EXCEPT !.valid = TRUE, !.sent = TRUE ] ]

\* Faulty variant: an unchanged URL is not validated again, but is sent again.
HandleWebCacheDirUpdate_ResendSame(st, prev_read, ext, resp) ==
    LET b == BeforeCompare(st, prev_read, ext)
        v == ValidateUrl(resp)
        tried == [ b.call EXCEPT !.validated = TRUE, !.net = v.net ]
    IN  IF b.done
        THEN [ st |-> st, call |-> b.call ]
        ELSE IF ext.url[1] = st.prev_url
        THEN [ st |-> [ st EXCEPT !.url_tx = ext.url ], call |-> [ b.call EXCEPT !.sent = TRUE ] ]
        ELSE IF ~v.ok
        THEN [ st |-> st, call |-> [ tried EXCEPT !.ret = "validation failed" ] ]
        ELSE [ st |-> [ st EXCEPT !.prev_url = ext.url[1], !.url_tx = ext.url ],
               call |-> [ tried EXCEPT !.valid = TRUE, !.sent = TRUE ] ]

\* Faulty variant: prev_url is recorded before validate_url is called.
HandleWebCacheDirUpdate_RecordEarly(st, prev_read, ext, resp) ==
    LET b == BeforeCompare(st, prev_read, ext)
        v == ValidateUrl(resp)
        tried == [ b.call EXCEPT !.validated = TRUE, !.net = v.net ]
    IN  IF b.done \/ ext.url[1] = st.prev_url
        THEN [ st |-> st, call |-> b.call ]
        ELSE IF ~v.ok
        THEN [ st |-> [ st EXCEPT !.prev_url = ext.url[1] ],
               call |-> [ tried EXCEPT !.ret = "validation failed" ] ]
        ELSE [ st |-> [ st EXCEPT !.prev_url = ext.url[1], !.url_tx = ext.url ],
               call |-> [ tried EXCEPT !.valid = TRUE, !.sent = TRUE ] ]

\* Faulty variant: a URL that fails validation clears the published value.
HandleWebCacheDirUpdate_ClearOnFailure(st, prev_read, ext, resp) ==
    LET b == BeforeCompare(st, prev_read, ext)
        v == ValidateUrl(resp)
        tried == [ b.call EXCEPT !.validated = TRUE, !.net = v.net ]
    IN  IF b.done \/ ext.url[1] = st.prev_url
        THEN [ st |-> st, call |-> b.call ]
        ELSE IF ~v.ok
        THEN [ st |-> [ st EXCEPT !.url_tx = None ],
               call |-> [ tried EXCEPT !.ret = "validation failed" ] ]
        ELSE [ st |-> [ st EXCEPT !.prev_url = ext.url[1], !.url_tx = ext.url ],
               call |-> [ tried EXCEPT !.valid = TRUE, !.sent = TRUE ] ]

\* Wish::handle_web_cache_dir_update. st is the state on entry, ext what
\* fs::read and url_re give, resp what validate_url meets (if it is called).
\* The result is the state on return and the record of the call.
HandleWebCacheDirUpdate(st, prev_read, ext, resp) ==
    LET b == BeforeCompare(st, prev_read, ext)
    IN  IF b.done
        THEN [ st |-> st, call |-> b.call ]
        ELSE IF ext.url[1] = st.prev_url
        THEN [ st |-> st, call |-> b.call ]
        ELSE LET v == ValidateUrl(resp)
                 tried == [ b.call EXCEPT !.validated = TRUE, !.net = v.net ]
             IN  IF ~v.ok
                 THEN [ st |-> st, call |-> [ tried EXCEPT !.ret = "validation failed" ] ]
                 ELSE [ st |-> [ st EXCEPT !.prev_url = ext.url[1], !.url_tx = ext.url ],
                        call |-> [ tried EXCEPT !.valid = TRUE, !.sent = TRUE ] ]

\* Faulty variant: the new path is watched before the old one is unwatched.
HandleLogUpdate_WatchFirst(st, prev_read, disc, watch_ok, ext, resp) ==
    IF ~disc.ok
    THEN [ st |-> st, found |-> FALSE, wops |-> << >>, call |-> NoCall ]
    ELSE LET new == disc.path[1]
             old == st.web_cache_path
             unwatch == IF old = None THEN << >>
                        ELSE << [ op |-> "unwatch", path |-> old[1] ] >>
             added == IF watch_ok THEN st.watched \cup { new } ELSE st.watched
             now == IF old = None THEN added ELSE added \ { old[1] }
             r == HandleWebCacheDirUpdate(
                      [ st EXCEPT !.web_cache_path = Some(new), !.watched = now ],
                      prev_read, ext, resp)
         IN  [ st |-> r.st, found |-> TRUE,
               wops |-> << [ op |-> "watch", path |-> new ] >> \o unwatch,
               call |-> r.call ]

\* Faulty variant: web_cache_path is taken (and unwatched) before the new
\* path is looked for.
HandleLogUpdate_TakeFirst(st, prev_read, disc, watch_ok, ext, resp) ==
    LET old == st.web_cache_path
        unwatch == IF old = None THEN << >>
                   ELSE << [ op |-> "unwatch", path |-> old[1] ] >>
        kept == IF old = None THEN st.watched ELSE st.watched \ { old[1] }
    IN  IF ~disc.ok
        THEN [ st |-> [ st EXCEPT !.web_cache_path = None, !.watched = kept ],
               found |-> FALSE, wops |-> unwatch, call |-> NoCall ]
        ELSE LET new == disc.path[1]
                 now == IF watch_ok THEN kept \cup { new } ELSE kept
                 r == HandleWebCacheDirUpdate(
                          [ st EXCEPT !.web_cache_path = Some(new), !.watched = now ],
                          prev_read, ext, resp)
             IN  [ st |-> r.st, found |-> TRUE,
                   wops |-> unwatch \o << [ op |-> "watch", path |-> new ] >>,
                   call |-> r.call ]

\* Faulty variant: the cache file is not read until an event of it arrives.
HandleLogUpdate_NoExtract(st, prev_read, disc, watch_ok, ext, resp) ==
    IF ~disc.ok
    THEN [ st |-> st, found |-> FALSE, wops |-> << >>, call |-> NoCall ]
    ELSE LET new == disc.path[1]
             old == st.web_cache_path
             unwatch == IF old = None THEN << >>
                        ELSE << [ op |-> "unwatch", path |-> old[1] ] >>
             kept == IF old = None THEN st.watched ELSE st.watched \ { old[1] }
             now == IF watch_ok THEN kept \cup { new } ELSE kept
         IN  [ st |-> [ st EXCEPT !.web_cache_path = Some(new), !.watched = now ],
               found |-> TRUE,
               wops |-> unwatch \o << [ op |-> "watch", path |-> new ] >>,
               call |-> NoCall ]

\* Faulty variant: the old path is not unwatched.
HandleLogUpdate_NoUnwatch(st, prev_read, disc, watch_ok, ext, resp) ==
    IF ~disc.ok
    THEN [ st |-> st, found |-> FALSE, wops |-> << >>, call |-> NoCall ]
    ELSE LET new == disc.path[1]
             now == IF watch_ok THEN st.watched \cup { new } ELSE st.watched
             r == HandleWebCacheDirUpdate(
                      [ st EXCEPT !.web_cache_path = Some(new), !.watched = now ],
                      prev_read, ext, resp)
         IN  [ st |-> r.st, found |-> TRUE,
               wops |-> << [ op |-> "watch", path |-> new ] >>,
               call |-> r.call ]

\* Faulty variant: a failed discovery forgets the URL published last.
HandleLogUpdate_ResetUrlOnFailure(st, prev_read, disc, watch_ok, ext, resp) ==
    IF ~disc.ok
    THEN [ st |-> [ st EXCEPT !.prev_url = "" ], found |-> FALSE, wops |-> << >>,
           call |-> NoCall ]
    ELSE LET new == disc.path[1]
             old == st.web_cache_path
             unwatch == IF old = None THEN << >>
                        ELSE << [ op |-> "unwatch", path |-> old[1] ] >>
             kept == IF old = None THEN st.watched ELSE st.watched \ { old[1] }
             now == IF watch_ok THEN kept \cup { new } ELSE kept
             r == HandleWebCacheDirUpdate(
                      [ st EXCEPT !.web_cache_path = Some(new), !.watched = now ],
                      prev_read, ext, resp)
         IN  [ st |-> r.st, found |-> TRUE,
               wops |-> unwatch \o << [ op |-> "watch", path |-> new ] >>,
               call |-> r.call ]

\* Faulty variant: every path is unwatched, the log's too.
HandleLogUpdate_UnwatchAll(st, prev_read, disc, watch_ok, ext, resp) ==
    IF ~disc.ok
    THEN [ st |-> st, found |-> FALSE, wops |-> << >>, call |-> NoCall ]
    ELSE LET new == disc.path[1]
             old == st.web_cache_path
             unwatch == IF old = None THEN << >>
                        ELSE << [ op |-> "unwatch", path |-> old[1] ] >>
             kept == IF old = None THEN st.watched ELSE {}
             now == IF watch_ok THEN kept \cup { new } ELSE kept
             r == HandleWebCacheDirUpdate(
                      [ st EXCEPT !.web_cache_path = Some(new), !.watched = now ],
                      prev_read, ext, resp)
         IN  [ st |-> r.st, found |-> TRUE,
               wops |-> unwatch \o << [ op |-> "watch", path |-> new ] >>,
               call |-> r.call ]

\* Wish::handle_log_update. disc is what get_web_cache_path returns, watch_ok
\* whether the watcher accepts the new path (it refuses a path that does not
\* exist); the results of unwatch and watch are dropped (let _ =).
HandleLogUpdate(st, prev_read, disc, watch_ok, ext, resp) ==
    IF ~disc.ok
    THEN [ st |-> st, found |-> FALSE, wops |-> << >>, call |-> NoCall ]
    ELSE LET new == disc.path[1]
             old == st.web_cache_path
             unwatch == IF old = None THEN << >>
                        ELSE << [ op |-> "unwatch", path |-> old[1] ] >>
             kept == IF old = None THEN st.watched ELSE st.watched \ { old[1] }
             now == IF watch_ok THEN kept \cup { new } ELSE kept
             r == HandleWebCacheDirUpdate(
                      [ st EXCEPT !.web_cache_path = Some(new), !.watched = now ],
                      prev_read, ext, resp)
         IN  [ st |-> r.st, found |-> TRUE,
               wops |-> unwatch \o << [ op |-> "watch", path |-> new ] >>,
               call |-> r.call ]

\* What a call leaves as "the previous read": the file read, the URL
\* extracted from it (None: unreadable, or no match) and whether validate_url
\* was called on it and failed.
ReadAfter(call, before) ==
    IF call.invoked /\ call.path # None
    THEN [ path |-> call.path, url |-> call.ext, failed |-> call.validated /\ ~call.valid ]
    ELSE before

\* Every way a call of handle_log_update can go from st.
LogUpdateResults(st, prev_read) ==
    { HandleLogUpdate(st, prev_read, disc, watch_ok, ext, resp) :
        disc \in DiscoveryResults, watch_ok \in BOOLEAN,
        ext \in ExtractResults, resp \in Responses }

\* Every way a call of handle_web_cache_dir_update can go from st.
CacheUpdateResults(st, prev_read) ==
    { HandleWebCacheDirUpdate(st, prev_read, ext, resp) :
        ext \in ExtractResults, resp \in Responses }

\* The state a handler call leaves, and the record of the step.
Commit(st, op, path, found, wops, call) ==
    /\ web_cache_path' = st.web_cache_path
    /\ prev_url' = st.prev_url
    /\ url_tx' = st.url_tx
    /\ watched' = st.watched
    /\ last_read' = ReadAfter(call, last_read)
    /\ step' = [ op |-> op, path |-> path, found |-> found, wops |-> wops, call |-> call,
                 err |-> "" ]

\* Faulty variant: an event of any cache file goes to the cache handler once a
\* cache file is known.
Dispatch_AnyCachePath(path, st) ==
    IF path = LogPath THEN "log"
    ELSE IF st.web_cache_path # None /\ path \in CachePaths THEN "cache"
    ELSE "none"

\* The if / else if of the loop over a batch: the handler an event of path
\* goes to.
Dispatch(path, st) ==
    IF path = LogPath THEN "log"
    ELSE IF st.web_cache_path # None /\ path = st.web_cache_path[1] THEN "cache"
    ELSE "none"

\* A batch the debouncer sends: Ok(events), or Err(errors).
Batches(paths) ==
    { [ ok |-> TRUE, events |-> s ] : s \in SeqsUpTo(paths, MaxPending) \ { << >> } }

ErrorBatch == [ ok |-> FALSE, events |-> << >> ]

\* The events of a batch (an error batch counts as one).
Size(b) == IF b.ok THEN Len(b.events) ELSE 1

RECURSIVE SumSizes(_)
SumSizes(q) == IF q = << >> THEN 0 ELSE Size(Head(q)) + SumSizes(Tail(q))

\* The events sent and not yet handled.
Pending == SumSizes(file_events) + Len(batch)

(***************************************************************************)
(* WISH MONITOR: actions.                                                  *)
(***************************************************************************)
WishInit ==
    /\ wpc = "init"
    /\ web_cache_path = None
    /\ prev_url = ""
    /\ url_tx = None
    /\ watched = {}
    /\ file_events = << >>
    /\ batch = << >>
    /\ last_read = NoRead
    /\ step = NoStep("init")

\* Wish::new: output_log_path() and the debouncer may fail; the fields are
\* set as in Init.
WishNew ==
    /\ UNCHANGED << pcapVars, probeVars, pktmonVars, appVars, playerVars >>
    /\ wpc = "init"
    /\ \E ok \in BOOLEAN : wpc' = IF ok THEN "created" ELSE "failed"
    /\ step' = NoStep("new")
    /\ UNCHANGED << web_cache_path, prev_url, url_tx, watched, file_events,
                    batch, last_read >>

\* How monitor gets to its first handle_log_update: output_log_path() fails
\* (no userprofile variable), watch(&output_log_path) fails (the watcher
\* refuses a path that does not exist), or both succeed.
StartOutcomes == { "no_userprofile", "log_not_found", "ok" }

\* Wish::monitor up to its loop: watch the log (either ? may return the
\* error), then handle_log_update, whose error is only logged.
MonitorStart ==
    /\ UNCHANGED << pcapVars, probeVars, pktmonVars, appVars, playerVars >>
    /\ wpc = "created"
    /\ \E start \in StartOutcomes :
         IF start = "ok"
         THEN /\ wpc' = "loop"
              /\ \E r \in LogUpdateResults([ WishState EXCEPT !.watched = { LogPath } ], last_read) :
                   Commit(r.st, "start", Some(LogPath), r.found, r.wops, r.call)
         ELSE /\ wpc' = "failed"
              /\ step' = [ NoStep("start") EXCEPT !.err = start ]
              /\ UNCHANGED << web_cache_path, prev_url, url_tx, watched, last_read >>
    /\ UNCHANGED << file_events, batch >>

\* The debouncer sends a batch of events of watched paths.
Emit ==
    /\ UNCHANGED << pcapVars, probeVars, pktmonVars, appVars, playerVars >>
    /\ wpc = "loop"
    /\ \E b \in Batches(watched) \cup { ErrorBatch } :
         /\ Pending + Size(b) <= MaxPending
         /\ file_events' = Append(file_events, b)
    /\ step' = NoStep("emit")
    /\ UNCHANGED << wpc, web_cache_path, prev_url, url_tx, watched, batch, last_read >>

\* Faulty variant: an error batch is dropped and the loop goes on.
Recv_SkipErrorBatch ==
    /\ UNCHANGED << pcapVars, probeVars, pktmonVars, appVars, playerVars >>
    /\ wpc = "loop"
    /\ batch = << >>
    /\ file_events # << >>
    /\ file_events' = Tail(file_events)
    /\ batch' = Head(file_events).events
    /\ wpc' = "loop"
    /\ step' = NoStep("recv")
    /\ UNCHANGED << web_cache_path, prev_url, url_tx, watched, last_read >>

\* while let Some(Ok(events)) = self.file_events.recv().await
Recv ==
    /\ UNCHANGED << pcapVars, probeVars, pktmonVars, appVars, playerVars >>
    /\ wpc = "loop"
    /\ batch = << >>
    /\ file_events # << >>
    /\ file_events' = Tail(file_events)
    /\ IF Head(file_events).ok
       THEN batch' = Head(file_events).events /\ wpc' = "loop"
       ELSE batch' = << >> /\ wpc' = "returned"
    /\ step' = NoStep("recv")
    /\ UNCHANGED << web_cache_path, prev_url, url_tx, watched, last_read >>

\* for event in events: event.path == output_log_path
LogEvent ==
    /\ UNCHANGED << pcapVars, probeVars, pktmonVars, appVars, playerVars >>
    /\ wpc = "loop"
    /\ batch # << >>
    /\ Dispatch(Head(batch), WishState) = "log"
    /\ batch' = Tail(batch)
    /\ \E r \in LogUpdateResults(WishState, last_read) :
         Commit(r.st, "log", Some(Head(batch)), r.found, r.wops, r.call)
    /\ UNCHANGED << wpc, file_events >>

\* for event in events: event.path == web_cache_path
CacheEvent ==
    /\ UNCHANGED << pcapVars, probeVars, pktmonVars, appVars, playerVars >>
    /\ wpc = "loop"
    /\ batch # << >>
    /\ Dispatch(Head(batch), WishState) = "cache"
    /\ batch' = Tail(batch)
    /\ \E r \in CacheUpdateResults(WishState, last_read) :
         Commit(r.st, "cache", Some(Head(batch)), FALSE, << >>, r.call)
    /\ UNCHANGED << wpc, file_events >>

\* for event in events: any other path
OtherEvent ==
    /\ UNCHANGED << pcapVars, probeVars, pktmonVars, appVars, playerVars >>
    /\ wpc = "loop"
    /\ batch # << >>
    /\ Dispatch(Head(batch), WishState) = "none"
    /\ batch' = Tail(batch)
    /\ step' = [ NoStep("other") EXCEPT !.path = Some(Head(batch)) ]
    /\ UNCHANGED << wpc, web_cache_path, prev_url, url_tx, watched, file_events,
                    last_read >>

WishNext ==
    \/ WishNew
    \/ MonitorStart
    \/ Emit
    \/ Recv
    \/ LogEvent
    \/ CacheEvent
    \/ OtherEvent

(***************************************************************************)
(* MULTI-DEVICE BACKEND: what the OS gives.                                *)
(***************************************************************************)
\* pcap::ConnectionStatus
Statuses == { "Unknown", "Connected", "Disconnected", "NotApplicable" }

\* How setup_device_capture goes on a device: Capture::from_device(..).open()
\* fails, capture.filter fails, or both succeed.
Setups == { "open_error", "filter_error", "ok" }

Devices == [ status : Statuses, setup : Setups ]

\* Device::list(): an error, or the devices.
Enumerations ==
    { [ ok |-> FALSE, devices |-> << >> ] }
      \cup { [ ok |-> TRUE, devices |-> d ] : d \in SeqsUpTo(Devices, MaxDevices) }

\* The items of the channel: Ok(packet.data) of the n-th packet device dev
\* delivered, or Err(CaptureError::Capture { has_captured, .. }).
Packet(dev, n) == [ kind |-> "pkt", dev |-> dev, n |-> n, has_captured |-> FALSE ]

CaptureErr(dev, has_captured) ==
    [ kind |-> "err", dev |-> dev, n |-> 0, has_captured |-> has_captured ]

(***************************************************************************)
(* MULTI-DEVICE BACKEND: PcapBackend::new.                                 *)
(***************************************************************************)
\* Faulty variant: only a device known to be disconnected is left out.
ShouldCaptureOnDevice_NotDisconnected(device) == device.status # "Disconnected"

\* Faulty variant: every device is captured on.
ShouldCaptureOnDevice_Always(device) == device.status \in Statuses

\* PcapBackend::should_capture_on_device
ShouldCaptureOnDevice(device) == device.status = "Connected"

\* setup_device_capture: Ok, or the error it maps the failure to.
SetupDeviceCapture(device) ==
    IF device.setup = "open_error"
    THEN [ ok |-> FALSE, err |-> "Capture" ]
    ELSE IF device.setup = "filter_error"
    THEN [ ok |-> FALSE, err |-> "Filter" ]
    ELSE [ ok |-> TRUE, err |-> "" ]

RECURSIVE SetupAll_AbortOnError(_, _, _)
\* Faulty variant: the first setup error ends the loop with no capture.
SetupAll_AbortOnError(devices, i, acc) ==
    IF i > Len(devices) THEN acc
    ELSE IF ~ShouldCaptureOnDevice(devices[i]) THEN SetupAll_AbortOnError(devices, i + 1, acc)
    ELSE LET tried == [ acc EXCEPT !.tried = @ \cup { i } ]
         IN  IF SetupDeviceCapture(devices[i]).ok
             THEN SetupAll_AbortOnError(devices, i + 1, [ tried EXCEPT !.captures = Append(@, i) ])
             ELSE [ tried EXCEPT !.captures = << >> ]

RECURSIVE SetupAll(_, _, _)
\* The loop "for device in devices" of new from device i on: acc holds
\* successful_captures and the devices setup was tried on.
SetupAll(devices, i, acc) ==
    IF i > Len(devices) THEN acc
    ELSE IF ~ShouldCaptureOnDevice(devices[i]) THEN SetupAll(devices, i + 1, acc)
    ELSE LET tried == [ acc EXCEPT !.tried = @ \cup { i } ]
         IN  IF SetupDeviceCapture(devices[i]).ok
             THEN SetupAll(devices, i + 1, [ tried EXCEPT !.captures = Append(@, i) ])
             ELSE SetupAll(devices, i + 1, tried)

\* A capture thread as spawned: packet_loop before its first read.
NewThread(dev) ==
    [ dev |-> dev, pc |-> "read", has_captured |-> FALSE, reads |-> 0, held |-> None,
      exit |-> "", err_tried |-> FALSE, err_open |-> FALSE ]

\* PcapBackend::new on what Device::list() returned.
PcapNew(enum) ==
    IF ~enum.ok
    THEN [ ok |-> FALSE, tried |-> {}, threads |-> << >>,
           err |-> Some([ kind |-> "Capture", has_captured |-> FALSE, cause |-> "Device::list" ]) ]
    ELSE LET all == SetupAll(enum.devices, 1, [ captures |-> << >>, tried |-> {} ])
         IN  IF all.captures = << >>
             THEN [ ok |-> FALSE, tried |-> all.tried, threads |-> << >>,
                    err |-> Some([ kind |-> "Capture", has_captured |-> FALSE,
                                   cause |-> "No capture device available" ]) ]
             ELSE [ ok |-> TRUE, tried |-> all.tried,
                    threads |-> [ k \in 1 .. Len(all.captures) |-> NewThread(all.captures[k]) ],
                    err |-> None ]

(***************************************************************************)
(* MULTI-DEVICE BACKEND: packet_loop and next_packet.                      *)
(***************************************************************************)
\* Faulty variant: has_captured is never set.
PacketLoopRead_FlagNeverSet(t, ok) ==
    IF ok
    THEN [ t EXCEPT !.reads = @ + 1, !.pc = "send", !.held = Some(Packet(t.dev, t.reads + 1)) ]
    ELSE [ t EXCEPT !.pc = "send", !.held = Some(CaptureErr(t.dev, t.has_captured)) ]

\* match capture.next_packet(): the thread now holds what it will send.
PacketLoopRead(t, ok) ==
    IF ok
    THEN [ t EXCEPT !.has_captured = TRUE, !.reads = @ + 1, !.pc = "send",
                    !.held = Some(Packet(t.dev, t.reads + 1)) ]
    ELSE [ t EXCEPT !.pc = "send", !.held = Some(CaptureErr(t.dev, t.has_captured)) ]

\* Faulty variant: a packet whose send fails is reported as a capture error.
PacketLoopSend_ErrorOnClosed(t, q, open) ==
    LET item == t.held[1]
    IN  IF item.kind = "pkt" /\ open
        THEN [ t |-> [ t EXCEPT !.held = None, !.pc = "read" ],
               q |-> Append(q, item), pushed |-> << item >> ]
        ELSE [ t |-> [ t EXCEPT !.held = None, !.pc = "exited", !.exit = "capture error",
                                !.err_tried = TRUE, !.err_open = open ],
               q |-> IF open THEN Append(q, item) ELSE q,
               pushed |-> IF open THEN << item >> ELSE << >> ]

\* Faulty variant: the channel hands out the newest item first.
PacketLoopSend_Front(t, q, open) ==
    LET item == t.held[1]
    IN  IF item.kind = "pkt"
        THEN IF open
             THEN [ t |-> [ t EXCEPT !.held = None, !.pc = "read" ],
                    q |-> << item >> \o q, pushed |-> << item >> ]
             ELSE [ t |-> [ t EXCEPT !.held = None, !.pc = "exited", !.exit = "channel closed" ],
                    q |-> q, pushed |-> << >> ]
        ELSE [ t |-> [ t EXCEPT !.held = None, !.pc = "exited", !.exit = "capture error",
                                !.err_tried = TRUE, !.err_open = open ],
               q |-> IF open THEN << item >> \o q ELSE q,
               pushed |-> IF open THEN << item >> ELSE << >> ]

\* Faulty variant: a failing thread empties the channel before its error.
PacketLoopSend_ErrorFlushes(t, q, open) ==
    LET item == t.held[1]
    IN  IF item.kind = "pkt"
        THEN IF open
             THEN [ t |-> [ t EXCEPT !.held = None, !.pc = "read" ],
                    q |-> Append(q, item), pushed |-> << item >> ]
             ELSE [ t |-> [ t EXCEPT !.held = None, !.pc = "exited", !.exit = "channel closed" ],
                    q |-> q, pushed |-> << >> ]
        ELSE [ t |-> [ t EXCEPT !.held = None, !.pc = "exited", !.exit = "capture error",
                                !.err_tried = TRUE, !.err_open = open ],
               q |-> IF open THEN << item >> ELSE q,
               pushed |-> IF open THEN << item >> ELSE << >> ]

\* Faulty variant: the loop goes on after the error is sent.
PacketLoopSend_NoBreakOnError(t, q, open) ==
    LET item == t.held[1]
    IN  IF item.kind = "pkt"
        THEN IF open
             THEN [ t |-> [ t EXCEPT !.held = None, !.pc = "read" ],
                    q |-> Append(q, item), pushed |-> << item >> ]
             ELSE [ t |-> [ t EXCEPT !.held = None, !.pc = "exited", !.exit = "channel closed" ],
                    q |-> q, pushed |-> << >> ]
        ELSE [ t |-> [ t EXCEPT !.held = None, !.pc = "read",
                                !.err_tried = TRUE, !.err_open = open ],
               q |-> IF open THEN Append(q, item) ELSE q,
               pushed |-> IF open THEN << item >> ELSE << >> ]

\* Faulty variant: the result of sending a packet is not looked at.
PacketLoopSend_IgnoreClosed(t, q, open) ==
    LET item == t.held[1]
    IN  IF item.kind = "pkt"
        THEN [ t |-> [ t EXCEPT !.held = None, !.pc = "read" ],
               q |-> IF open THEN Append(q, item) ELSE q,
               pushed |-> IF open THEN << item >> ELSE << >> ]
        ELSE [ t |-> [ t EXCEPT !.held = None, !.pc = "exited", !.exit = "capture error",
                                !.err_tried = TRUE, !.err_open = open ],
               q |-> IF open THEN Append(q, item) ELSE q,
               pushed |-> IF open THEN << item >> ELSE << >> ]

\* packet_tx.send(..) and what follows it in the arm: q is the channel, open
\* whether the receiver is alive (send fails if it is not). pushed holds the
\* item if the channel took it.
PacketLoopSend(t, q, open) ==
    LET item == t.held[1]
    IN  IF item.kind = "pkt"
        THEN IF open
             THEN [ t |-> [ t EXCEPT !.held = None, !.pc = "read" ],
                    q |-> Append(q, item), pushed |-> << item >> ]
             ELSE [ t |-> [ t EXCEPT !.held = None, !.pc = "exited", !.exit = "channel closed" ],
                    q |-> q, pushed |-> << >> ]
        ELSE [ t |-> [ t EXCEPT !.held = None, !.pc = "exited", !.exit = "capture error",
                                !.err_tried = TRUE, !.err_open = open ],
               q |-> IF open THEN Append(q, item) ELSE q,
               pushed |-> IF open THEN << item >> ELSE << >> ]

\* Faulty variant: only a thread waiting in its read counts as a sender.
SendersAlive_ReadingOnly(threads) == \E k \in 1 .. Len(threads) : threads[k].pc = "read"

\* Whether a sender of the channel is alive: new drops its own packet_tx when
\* it returns, each thread drops its clone when packet_loop returns.
SendersAlive(threads) == \E k \in 1 .. Len(threads) : threads[k].pc # "exited"

\* Faulty variant: the item returned stays in the channel.
NextPacketOf_Peek(q, threads) ==
    IF q # << >>
    THEN [ ready |-> TRUE, ret |-> Some(Head(q)), q |-> q ]
    ELSE [ ready |-> ~(\E k \in 1 .. Len(threads) : threads[k].pc # "exited"),
           ret |-> None, q |-> q ]

\* Faulty variant: an empty channel counts as a closed one.
NextPacketOf_ClosedWhenEmpty(q, threads) ==
    IF q # << >>
    THEN [ ready |-> TRUE, ret |-> Some(Head(q)), q |-> Tail(q) ]
    ELSE [ ready |-> TRUE, ret |-> None, q |-> q ]

\* Faulty variant: new keeps its own packet_tx, so the channel never closes.
NextPacketOf_SenderKept(q, threads) ==
    IF q # << >>
    THEN [ ready |-> TRUE, ret |-> Some(Head(q)), q |-> Tail(q) ]
    ELSE [ ready |-> FALSE, ret |-> None, q |-> q ]

\* self.packet_rx.recv().await: the next item, None when the channel is empty
\* and every sender is gone; not ready otherwise.
NextPacketOf(q, threads) ==
    IF q # << >>
    THEN [ ready |-> TRUE, ret |-> Some(Head(q)), q |-> Tail(q) ]
    ELSE IF ~SendersAlive(threads)
    THEN [ ready |-> TRUE, ret |-> None, q |-> q ]
    ELSE [ ready |-> FALSE, ret |-> None, q |-> q ]

\* The packets the threads have read in all.
RECURSIVE TotalReads(_)
TotalReads(threads) ==
    IF threads = << >> THEN 0 ELSE Head(threads).reads + TotalReads(Tail(threads))

(***************************************************************************)
(* MULTI-DEVICE BACKEND: actions.                                          *)
(***************************************************************************)
PcapInit ==
    /\ bpc = "init"
    /\ enumeration = [ ok |-> FALSE, devices |-> << >> ]
    /\ new_err = None
    /\ setup_tried = {}
    /\ thr = << >>
    /\ packet_q = << >>
    /\ rx_open = FALSE
    /\ delivered = << >>
    /\ last_ret = "none"
    /\ enq = << >>

\* PcapBackend::new()
New ==
    /\ UNCHANGED << wishVars, probeVars, pktmonVars, appVars, playerVars >>
    /\ bpc = "init"
    /\ \E enum \in Enumerations :
         LET r == PcapNew(enum)
         IN  /\ enumeration' = enum
             /\ bpc' = IF r.ok THEN "ok" ELSE "failed"
             /\ new_err' = r.err
             /\ setup_tried' = r.tried
             /\ thr' = r.threads
             /\ rx_open' = r.ok
    /\ UNCHANGED << packet_q, delivered, last_ret, enq >>

\* Thread k's capture.next_packet() returns a packet or an error.
ThreadRead(k) ==
    /\ UNCHANGED << wishVars, probeVars, pktmonVars, appVars, playerVars >>
    /\ thr[k].pc = "read"
    /\ \E ok \in BOOLEAN :
         /\ ok => TotalReads(thr) < MaxReads
         /\ thr' = [ thr EXCEPT ![k] = PacketLoopRead(thr[k], ok) ]
    /\ UNCHANGED << bpc, enumeration, new_err, setup_tried, packet_q, rx_open, delivered,
                    last_ret, enq >>

\* Thread k sends what it holds.
ThreadSend(k) ==
    /\ UNCHANGED << wishVars, probeVars, pktmonVars, appVars, playerVars >>
    /\ thr[k].pc = "send"
    /\ LET r == PacketLoopSend(thr[k], packet_q, rx_open)
       IN  /\ thr' = [ thr EXCEPT ![k] = r.t ]
           /\ packet_q' = r.q
           /\ enq' = enq \o r.pushed
    /\ UNCHANGED << bpc, enumeration, new_err, setup_tried, rx_open, delivered, last_ret >>

\* The consumer's next_packet().await returns.
NextPacket ==
    /\ UNCHANGED << wishVars, probeVars, pktmonVars, appVars, playerVars >>
    /\ bpc = "ok"
    /\ rx_open
    /\ LET r == NextPacketOf(packet_q, thr)
       IN  /\ r.ready
           /\ packet_q' = r.q
           /\ delivered' = delivered \o r.ret
           /\ last_ret' = IF r.ret = None THEN "CaptureClosed" ELSE r.ret[1].kind
    /\ UNCHANGED << bpc, enumeration, new_err, setup_tried, thr, rx_open, enq >>

\* The consumer drops the PcapBackend: the receiver goes, with what it held.
DropBackend ==
    /\ UNCHANGED << wishVars, probeVars, pktmonVars, appVars, playerVars >>
    /\ bpc = "ok"
    /\ rx_open
    /\ rx_open' = FALSE
    /\ packet_q' = << >>
    /\ UNCHANGED << bpc, enumeration, new_err, setup_tried, thr, delivered, last_ret, enq >>

PcapNext ==
    \/ New
    \/ \E k \in 1 .. Len(thr) : ThreadRead(k)
    \/ \E k \in 1 .. Len(thr) : ThreadSend(k)
    \/ NextPacket
    \/ DropBackend

(***************************************************************************)
(* MULTI-DEVICE BACKEND: properties.                                       *)
(***************************************************************************)
\* A device new can capture on: its link is connected, and a capture opens on
\* it in immediate mode and takes the filter.
Qualifies(device) == device.status = "Connected" /\ device.setup = "ok"

SomeDeviceQualifies ==
    \E i \in 1 .. Len(enumeration.devices) : Qualifies(enumeration.devices[i])

\* C6: new succeeds exactly when Device::list() succeeds and some device
\* qualifies; otherwise it returns Capture { has_captured: false } (with the
\* cause "No capture device available" when the enumeration succeeded) and no
\* thread is spawned.
C6_NewSucceedsIffSomeDeviceQualifies ==
    bpc # "init" =>
        /\ bpc = "ok" <=> (enumeration.ok /\ SomeDeviceQualifies)
        /\ bpc = "ok" => new_err = None /\ thr # << >>
        /\ bpc = "failed" =>
              /\ new_err # None
              /\ new_err[1].kind = "Capture"
              /\ ~new_err[1].has_captured
              /\ enumeration.ok => new_err[1].cause = "No capture device available"
              /\ thr = << >>

C6_Witness ==
    /\ bpc = "failed"
    /\ enumeration.ok
    /\ Len(enumeration.devices) = 2
    /\ enumeration.devices[1] = [ status |-> "Unknown", setup |-> "ok" ]
    /\ enumeration.devices[2] = [ status |-> "Connected", setup |-> "filter_error" ]
    /\ new_err[1].cause = "No capture device available"

\* Thread k holds a packet to send and the receiver is gone.
PushWillFail(k) ==
    /\ thr[k].pc = "send"
    /\ thr[k].held[1].kind = "pkt"
    /\ ~rx_open

\* C7: a thread whose send of a packet fails because the receiver is gone
\* leaves its loop, sends no error, and nothing enters the channel.
C7_FailedPushEndsThreadSilently ==
    [][\A k \in 1 .. Len(thr) :
         (PushWillFail(k) /\ thr'[k] # thr[k]) =>
             /\ thr'[k].pc = "exited"
             /\ thr'[k].exit = "channel closed"
             /\ ~thr'[k].err_tried
             /\ packet_q' = packet_q
             /\ enq' = enq]_vars

C7_Witness ==
    \E k \in 1 .. Len(thr) :
        /\ thr[k].pc = "exited"
        /\ thr[k].exit = "channel closed"
        /\ thr[k].reads = 2
        /\ ~rx_open

\* The error items of device dev among the items seq.
ErrorsOf(seq, dev) == SelectSeq(seq, LAMBDA x : x.kind = "err" /\ x.dev = dev)

\* C8: a thread whose read fails while the receiver is alive puts exactly one
\* Capture error in the channel, with has_captured true exactly when the
\* thread had read a packet before, and ends.
C8_ReadFailureSendsOneError ==
    \A k \in 1 .. Len(thr) :
        (thr[k].exit = "capture error" /\ thr[k].err_open) =>
            /\ thr[k].pc = "exited"
            /\ ErrorsOf(enq, thr[k].dev) = << CaptureErr(thr[k].dev, thr[k].reads > 0) >>

C8_Witness ==
    \E k \in 1 .. Len(thr) :
        /\ thr[k].exit = "capture error"
        /\ thr[k].err_open
        /\ thr[k].reads > 0
        /\ ErrorsOf(delivered, thr[k].dev) # << >>
        /\ \E j \in 1 .. Len(thr) : thr[j].exit = "capture error" /\ thr[j].reads = 0

\* How often x occurs in seq.
Count(seq, x) == Cardinality({ i \in 1 .. Len(seq) : seq[i] = x })

\* C9: while the receiver is alive, every packet a thread has read is either
\* still held by the thread, once in the channel, or returned once by
\* next_packet, and never two of these; and next_packet can return whenever
\* the channel holds an item.
C9_EveryPacketExactlyOnce ==
    (bpc = "ok" /\ rx_open) =>
        /\ \A k \in 1 .. Len(thr) : \A n \in 1 .. thr[k].reads :
              LET p == Packet(thr[k].dev, n)
              IN  Count(delivered, p) + Count(packet_q, p)
                    + (IF thr[k].held = Some(p) THEN 1 ELSE 0) = 1
        /\ packet_q # << >> => ENABLED NextPacket

C9_Witness ==
    /\ rx_open
    /\ Len(delivered) = 3
    /\ \A i \in 1 .. 3 : delivered[i].kind = "pkt"
    /\ delivered[1].dev # delivered[2].dev
    /\ packet_q = << >>

\* C10: the packets of one device that next_packet returns come in the order
\* in which the device's thread read them.
C10_PerDeviceOrder ==
    \A i, j \in 1 .. Len(delivered) :
        (/\ i < j
         /\ delivered[i].kind = "pkt"
         /\ delivered[j].kind = "pkt"
         /\ delivered[i].dev = delivered[j].dev) => delivered[i].n < delivered[j].n

C10_Witness ==
    /\ Len(delivered) = 3
    /\ \A i \in 1 .. 3 : delivered[i].kind = "pkt"
    /\ delivered[1].dev = delivered[3].dev
    /\ delivered[1].dev # delivered[2].dev

\* The capture threads that have not left packet_loop.
Running == { k \in 1 .. Len(thr) : thr[k].pc # "exited" }

\* C11: next_packet returns a Capture error to the consumer only when no
\* capture thread is left running.
C11_ErrorOnlyWhenNoThreadRuns ==
    last_ret = "err" => Running = {}

\* The threads that left packet_loop on a read failure.
Failed == { k \in 1 .. Len(thr) : thr[k].exit = "capture error" }

\* The items of the threads other than thread j among the items seq.
OthersOf(seq, j) == SelectSeq(seq, LAMBDA x : x.dev # thr[j].dev)

\* C12: a step in which a thread fails changes no other thread and removes
\* nothing from the channel; and once a thread has failed, every other thread
\* that waits for its device can still read a packet from it, every other
\* thread that holds a packet still gets it into the channel while the
\* receiver is alive, and every item the other threads put in the channel is
\* in the channel, where next_packet can take it, or has been returned.
C12_FailureLeavesOthersRunning ==
    /\ [][\A j \in 1 .. Len(thr) :
            (thr[j].exit # "capture error" /\ thr'[j].exit = "capture error") =>
                /\ \A k \in 1 .. Len(thr) : k # j => thr'[k] = thr[k]
                /\ \E add \in { << >>, << thr[j].held[1] >> } : packet_q' = packet_q \o add]_vars
    /\ [](\A j \in Failed : \A k \in 1 .. Len(thr) : k # j =>
            /\ (thr[k].pc = "read" /\ TotalReads(thr) < MaxReads) =>
                  ENABLED (ThreadRead(k) /\ thr'[k].held # None /\ thr'[k].held[1].kind = "pkt")
            /\ (thr[k].pc = "send" /\ thr[k].held[1].kind = "pkt" /\ rx_open) =>
                  ENABLED (ThreadSend(k) /\ thr'[k].pc = "read"
                             /\ packet_q' = Append(packet_q, thr[k].held[1]))
            /\ rx_open =>
                  /\ OthersOf(enq, j) = OthersOf(delivered, j) \o OthersOf(packet_q, j)
                  /\ packet_q # << >> => ENABLED NextPacket)

C12_Witness ==
    \E j, k \in 1 .. Len(thr) :
        /\ j # k
        /\ j \in Failed
        /\ thr[j].reads = 0
        /\ thr[k].pc = "read"
        /\ thr[k].reads = 2
        /\ rx_open
        /\ Len(delivered) = 3
        /\ delivered[1].kind = "err"
        /\ delivered[3] = Packet(thr[k].dev, 2)

\* C13: next_packet returns CaptureClosed only when the channel is empty and
\* every thread has left packet_loop (so every sender is dropped); when the
\* channel holds an item it returns the oldest item and takes it out.
C13_ClosedOnlyWhenExhausted ==
    /\ [](last_ret = "CaptureClosed" => (packet_q = << >> /\ Running = {}))
    /\ [][(last_ret' # last_ret /\ last_ret' = "CaptureClosed") =>
             (packet_q = << >> /\ Running = {})]_vars
    /\ [][(rx_open /\ packet_q # << >> /\ << delivered, last_ret >>' # << delivered, last_ret >>) =>
             /\ delivered' = Append(delivered, Head(packet_q))
             /\ packet_q' = Tail(packet_q)
             /\ last_ret' # "CaptureClosed"]_vars

C13_Witness ==
    /\ last_ret = "CaptureClosed"
    /\ Len(thr) = 2
    /\ Len(delivered) = 4
    /\ delivered[4].kind = "err"

\* C26: new passes no device to setup_device_capture, and spawns no thread
\* for a device, whose connection status is not Connected.
C26_OnlyConnectedDevicesAttempted ==
    /\ \A i \in setup_tried : enumeration.devices[i].status = "Connected"
    /\ \A k \in 1 .. Len(thr) : enumeration.devices[thr[k].dev].status = "Connected"
    /\ bpc # "init" =>
          \A i \in 1 .. Len(enumeration.devices) :
              enumeration.devices[i].status = "Connected" <=> i \in setup_tried

C26_Witness ==
    /\ bpc = "ok"
    /\ Len(enumeration.devices) = 2
    /\ enumeration.devices[1] = [ status |-> "Unknown", setup |-> "ok" ]
    /\ enumeration.devices[2] = [ status |-> "Connected", setup |-> "ok" ]
    /\ setup_tried = { 2 }
    /\ Len(thr) = 1

\* The devices of the enumeration whose setup new tried and saw succeed.
SetupSucceeded ==
    { i \in setup_tried : enumeration.devices[i].setup = "ok" }

\* C27: new succeeds whenever the setup of some device it tried succeeds,
\* whatever the setup of the other devices did, and then runs one thread for
\* each device whose setup succeeded, in the order of the enumeration, and
\* none for any other device.
C27_SetupFailureSwallowed ==
    bpc # "init" =>
        /\ SetupSucceeded # {} => bpc = "ok"
        /\ Len(thr) = Cardinality(SetupSucceeded)
        /\ { thr[k].dev : k \in 1 .. Len(thr) } = SetupSucceeded
        /\ \A j, k \in 1 .. Len(thr) : j < k => thr[j].dev < thr[k].dev

C27_Witness ==
    /\ bpc = "ok"
    /\ Len(enumeration.devices) = 2
    /\ enumeration.devices[1] = [ status |-> "Connected", setup |-> "open_error" ]
    /\ enumeration.devices[2] = [ status |-> "Connected", setup |-> "ok" ]
    /\ Len(thr) = 1
    /\ thr[1].dev = 2

(***************************************************************************)
(* KERNEL-MONITOR BACKEND: PktmonBackend::new and next_packet.             *)
(***************************************************************************)
\* capture.rs: PORT_RANGE
PORT_RANGE == << 22101, 22102 >>

\* What the OS answers in new: Capture::new(), add_filter of the first and of
\* the second port, capture.stream().
PktmonOutcomes == [ session : BOOLEAN, filter1 : BOOLEAN, filter2 : BOOLEAN, stream : BOOLEAN ]

Payloads == { "a", "b" }

\* A packet of the stream: its payload, and the number of the frame.
PktmonPacket(payload, n) == [ payload |-> payload, n |-> n ]

\* Faulty variant: the result of the second add_filter is dropped.
PktmonBackendNew_SecondFilterUnchecked(os) ==
    IF ~os.session
    THEN [ state |-> "failed", filters |-> << >>,
           err |-> Some([ kind |-> "Capture", has_captured |-> FALSE ]) ]
    ELSE IF ~os.filter1
    THEN [ state |-> "failed", filters |-> << >>, err |-> Some([ kind |-> "Filter" ]) ]
    ELSE LET installed == IF os.filter2 THEN << PORT_RANGE[1], PORT_RANGE[2] >>
                          ELSE << PORT_RANGE[1] >>
         IN  IF ~os.stream
             THEN [ state |-> "panicked", filters |-> installed, err |-> None ]
             ELSE [ state |-> "ok", filters |-> installed, err |-> None ]

\* PktmonBackend::new: the state it ends in, the filters installed on the
\* capture by then, and the error returned (unwrap panics, returning none).
PktmonBackendNew(os) ==
    IF ~os.session
    THEN [ state |-> "failed", filters |-> << >>,
           err |-> Some([ kind |-> "Capture", has_captured |-> FALSE ]) ]
    ELSE IF ~os.filter1
    THEN [ state |-> "failed", filters |-> << >>, err |-> Some([ kind |-> "Filter" ]) ]
    ELSE IF ~os.filter2
    THEN [ state |-> "failed", filters |-> << PORT_RANGE[1] >>,
           err |-> Some([ kind |-> "Filter" ]) ]
    ELSE IF ~os.stream
    THEN [ state |-> "panicked", filters |-> << PORT_RANGE[1], PORT_RANGE[2] >>, err |-> None ]
    ELSE [ state |-> "ok", filters |-> << PORT_RANGE[1], PORT_RANGE[2] >>, err |-> None ]

\* Faulty variant: no packet ready counts as the end of the stream.
PktmonNextPacketOf_ClosedWhenIdle(s, ended) ==
    IF s # << >>
    THEN [ ready |-> TRUE, ret |-> Some(Head(s).payload), stream |-> Tail(s) ]
    ELSE [ ready |-> TRUE, ret |-> None, stream |-> s ]

\* The select! of next_packet on the fused stream s: the payload of the next
\* packet; CaptureClosed (ret None) when the stream has terminated, that is
\* when the capture has ended and the stream has no packet left; not ready
\* otherwise.
PktmonNextPacketOf(s, ended) ==
    IF s # << >>
    THEN [ ready |-> TRUE, ret |-> Some(Head(s).payload), stream |-> Tail(s) ]
    ELSE IF ended
    THEN [ ready |-> TRUE, ret |-> None, stream |-> s ]
    ELSE [ ready |-> FALSE, ret |-> None, stream |-> s ]

PktmonInit ==
    /\ pm_pc = "init"
    /\ pm_os = [ session |-> FALSE, filter1 |-> FALSE, filter2 |-> FALSE, stream |-> FALSE ]
    /\ pm_filters = << >>
    /\ pm_err = None
    /\ stream = << >>
    /\ stream_ended = FALSE
    /\ pm_seen = << >>
    /\ pm_delivered = << >>
    /\ pm_last = "none"

\* PktmonBackend::new()
PktmonNew ==
    /\ UNCHANGED << wishVars, pcapVars, probeVars, appVars, playerVars >>
    /\ pm_pc = "init"
    /\ \E os \in PktmonOutcomes :
         LET r == PktmonBackendNew(os)
         IN  /\ pm_os' = os
             /\ pm_pc' = r.state
             /\ pm_filters' = r.filters
             /\ pm_err' = r.err
    /\ UNCHANGED << stream, stream_ended, pm_seen, pm_delivered, pm_last >>

\* The capture hands the stream a packet that passed the filters.
StreamYield ==
    /\ UNCHANGED << wishVars, pcapVars, probeVars, appVars, playerVars >>
    /\ pm_pc = "ok"
    /\ ~stream_ended
    /\ Len(pm_seen) < MaxStream
    /\ \E b \in Payloads :
         LET pkt == PktmonPacket(b, Len(pm_seen) + 1)
         IN  /\ stream' = Append(stream, pkt)
             /\ pm_seen' = Append(pm_seen, pkt)
    /\ UNCHANGED << pm_pc, pm_os, pm_filters, pm_err, stream_ended, pm_delivered, pm_last >>

\* The capture ends: the stream yields what it has, then None.
StreamEnd ==
    /\ UNCHANGED << wishVars, pcapVars, probeVars, appVars, playerVars >>
    /\ pm_pc = "ok"
    /\ ~stream_ended
    /\ stream_ended' = TRUE
    /\ UNCHANGED << pm_pc, pm_os, pm_filters, pm_err, stream, pm_seen, pm_delivered, pm_last >>

\* The consumer's next_packet().await returns.
PktmonNextPacket ==
    /\ UNCHANGED << wishVars, pcapVars, probeVars, appVars, playerVars >>
    /\ pm_pc = "ok"
    /\ LET r == PktmonNextPacketOf(stream, stream_ended)
       IN  /\ r.ready
           /\ stream' = r.stream
           /\ pm_delivered' = pm_delivered \o r.ret
           /\ pm_last' = IF r.ret = None THEN "CaptureClosed" ELSE "packet"
    /\ UNCHANGED << pm_pc, pm_os, pm_filters, pm_err, stream_ended, pm_seen >>

PktmonNext ==
    \/ PktmonNew
    \/ StreamYield
    \/ StreamEnd
    \/ PktmonNextPacket

(***************************************************************************)
(* PLAYER DATA: process_characters, process_items and the export of the    *)
(* artifacts. A u32 is a pair of 16-bit halves, so that its whole range is *)
(* there.                                                                  *)
(***************************************************************************)
Half == 65536

U32(hi, lo) == [ hi |-> hi, lo |-> lo ]

U32_MAX == U32(Half - 1, Half - 1)

\* a < b on u32
Less(a, b) == a.hi < b.hi \/ (a.hi = b.hi /\ a.lo < b.lo)

\* a - 1 where the build does not check the overflow: 0 wraps to u32::MAX.
WrappingSubOne(a) ==
    IF a.lo > 0 THEN U32(a.hi, a.lo - 1)
    ELSE IF a.hi > 0 THEN U32(a.hi - 1, Half - 1)
    ELSE U32_MAX

\* Whether the build checks arithmetic overflow (debug) or not (release).
Builds == { "overflow_checks", "wrapping" }

Guids == { 1, 2 }           \* equipment guids
AvatarIds == { 10, 11 }

\* equip_guid_list of an avatar
EquipLists == { << 1 >>, << 1, 2 >> }

Avatars == [ avatar_id : AvatarIds, equip_guid_list : EquipLists ]

ItemGuid == 1

\* The levels the game reports for an artifact: 0, and 21 (shown as +20).
ReportedLevels == { U32(0, 0), U32(0, 21) }

\* An item: a weapon; or an artifact (reliquary), which game_data knows or
\* not, with its reported level.
Items ==
    { [ guid |-> ItemGuid, kind |-> "weapon", known |-> TRUE, level |-> U32(0, 1) ],
      [ guid |-> ItemGuid, kind |-> "reliquary", known |-> FALSE, level |-> U32(0, 0) ] }
      \cup [ guid : { ItemGuid }, kind : { "reliquary" }, known : { TRUE }, level : ReportedLevels ]

\* ExportSettings.min_artifact_level
MinArtifactLevels == { U32(0, 0), U32(0, 20) }

EmptyMap == [ g \in {} |-> 0 ]

\* HashMap::insert
Insert(map, k, v) == [ g \in DOMAIN map \cup { k } |-> IF g = k THEN v ELSE map[g] ]

RECURSIVE InsertAll(_, _, _)
\* for guid in &avatar.equip_guid_list { map.insert(*guid, avatar_id) }
InsertAll(map, guids, avatar_id) ==
    IF guids = << >> THEN map
    ELSE InsertAll(Insert(map, Head(guids), avatar_id), Tail(guids), avatar_id)

RECURSIVE InsertAvatars(_, _)
\* for avatar in avatars { .. }
InsertAvatars(map, avatars) ==
    IF avatars = << >> THEN map
    ELSE InsertAvatars(InsertAll(map, Head(avatars).equip_guid_list, Head(avatars).avatar_id),
                       Tail(avatars))

\* Faulty variant: the map is not cleared first.
ProcessCharactersMap_NoClear(map, avatars) == InsertAvatars(map, avatars)

\* The map process_characters leaves: cleared, then filled from avatars.
ProcessCharactersMap(map, avatars) == InsertAvatars(EmptyMap, avatars)

\* The closure of filter_map in export_genshin_optimizer_artifacts on one
\* item: None (skipped), the artifact, or the panic of `artifact.level - 1`
\* on level 0 in a build that checks overflow. known is whether game_data
\* has the artifact (its main property is then taken to be there too); the
\* rarity filter is left at its minimum.
ExportArtifact(item, i, map, min_level, build) ==
    IF item.kind # "reliquary" \/ ~item.known THEN [ out |-> "skip" ]
    ELSE IF item.level = U32(0, 0) /\ build = "overflow_checks" THEN [ out |-> "panic" ]
    ELSE LET level == WrappingSubOne(item.level)
             location == IF item.guid \in DOMAIN map THEN Some(map[item.guid]) ELSE None
         IN  IF Less(level, min_level) THEN [ out |-> "skip" ]
             ELSE [ out |-> "artifact", item |-> i, level |-> level, location |-> location ]

RECURSIVE ExportArtifacts(_, _, _, _, _, _)
\* items.iter().filter_map(..).collect(), from item i on, acc exported so far
ExportArtifacts(its, i, acc, map, min_level, build) ==
    IF i > Len(its) THEN [ panicked |-> FALSE, artifacts |-> acc ]
    ELSE LET r == ExportArtifact(its[i], i, map, min_level, build)
         IN  IF r.out = "panic" THEN [ panicked |-> TRUE, artifacts |-> << >> ]
             ELSE ExportArtifacts(its, i + 1,
                                  IF r.out = "skip" THEN acc ELSE Append(acc, r),
                                  map, min_level, build)

\* PlayerData::new
PlayerInit ==
    /\ characters = << >>
    /\ items = << >>
    /\ character_equip_guid_map = EmptyMap
    /\ exported = None

\* process_characters(avatars)
ProcessCharacters ==
    /\ UNCHANGED << wishVars, pcapVars, probeVars, pktmonVars, appVars >>
    /\ \E avatars \in SeqsUpTo(Avatars, MaxAvatars) :
         /\ character_equip_guid_map' = ProcessCharactersMap(character_equip_guid_map, avatars)
         /\ characters' = avatars
    /\ exported' = None
    /\ UNCHANGED items

\* process_items(items)
ProcessItems ==
    /\ UNCHANGED << wishVars, pcapVars, probeVars, pktmonVars, appVars >>
    /\ \E its \in SeqsUpTo(Items, MaxItems) : items' = its
    /\ exported' = None
    /\ UNCHANGED << characters, character_equip_guid_map >>

\* export_genshin_optimizer_artifacts(settings)
ExportGenshinOptimizerArtifacts ==
    /\ UNCHANGED << wishVars, pcapVars, probeVars, pktmonVars, appVars >>
    /\ \E min_level \in MinArtifactLevels, build \in Builds :
         exported' = Some([ min_artifact_level |-> min_level, build |-> build,
                            result |-> ExportArtifacts(items, 1, << >>, character_equip_guid_map,
                                                       min_level, build) ])
    /\ UNCHANGED << characters, items, character_equip_guid_map >>

PlayerNext ==
    \/ ProcessCharacters
    \/ ProcessItems
    \/ ExportGenshinOptimizerArtifacts

(***************************************************************************)
(* DISCOVERY FUNCTIONS: the files of a call, the calls, and the properties *)
(* of what they return.                                                    *)
(***************************************************************************)
\* Logs of two sessions: lines game_data_re matches with different texts.
ProbeDataDirs == { "d1", "d2" }

ProbeLogFiles ==
    { [exists |-> FALSE, lines |-> << >>] }
      \cup { [exists |-> TRUE, lines |-> l] :
               l \in SeqsUpTo({ "noise", "badutf8" } \cup ProbeDataDirs, MaxLogLines) }

\* webCaches folders with up to three children.
ProbeSubDirs == { "s1", "s2", "s3" }

ProbeEntries == [ name : ProbeSubDirs, is_dir : BOOLEAN, mtime : 0 .. MaxMtime ]

ProbeListings ==
    { [readable |-> FALSE, entries |-> << >>] }
      \cup { [readable |-> TRUE, entries |-> e] :
               e \in { s \in SeqsUpTo(ProbeEntries, Cardinality(ProbeSubDirs)) :
                         \A i, j \in 1 .. Len(s) : i # j => s[i].name # s[j].name } }

\* The states of a monitor that watches a cache file: prev_url is "" (nothing
\* published yet) or the URL url_tx holds.
ProbeStates ==
    { [ web_cache_path |-> Some(p), prev_url |-> u,
        url_tx |-> IF u = "" THEN None ELSE Some(u), watched |-> { LogPath, p } ] :
        p \in CachePaths, u \in { "" } \cup Urls }

NoProbe ==
    [ fn |-> "none", log |-> [exists |-> FALSE, lines |-> << >>],
      listing |-> [readable |-> FALSE, entries |-> << >>],
      st |-> [ web_cache_path |-> None, prev_url |-> "", url_tx |-> None, watched |-> {} ],
      cache |-> [exists |-> FALSE, toks |-> << >>], resp |-> "parse_error" ]

Probes ==
    { [ NoProbe EXCEPT !.fn = "get_data_dir", !.log = l ] : l \in ProbeLogFiles }
      \cup { [ NoProbe EXCEPT !.fn = "get_web_cache_dir", !.listing = l ] : l \in ProbeListings }
      \cup { [ NoProbe EXCEPT !.fn = "handle_web_cache_dir_update", !.st = st, !.cache = c,
                              !.resp = r ] :
               st \in ProbeStates, c \in CacheFiles, r \in Responses }

\* No function is under study: the state of the probe in the specifications
\* of the components.
ProbeIdle == probe = NoProbe /\ result = None

ProbeInit == probe \in Probes /\ result = None

\* self.get_data_dir() on the log of the probe.
CallGetDataDir ==
    /\ UNCHANGED << wishVars, pcapVars, pktmonVars, appVars, playerVars >>
    /\ probe.fn = "get_data_dir"
    /\ result = None
    /\ result' = Some(GetDataDir(probe.log))
    /\ UNCHANGED probe

\* get_web_cache_dir(data_dir) on the webCaches folder of the probe.
CallGetWebCacheDir ==
    /\ UNCHANGED << wishVars, pcapVars, pktmonVars, appVars, playerVars >>
    /\ probe.fn = "get_web_cache_dir"
    /\ result = None
    /\ result' = Some(GetWebCacheDir(probe.listing))
    /\ UNCHANGED probe

\* self.handle_web_cache_dir_update() in the state and on the cache file of
\* the probe.
CallHandleWebCacheDirUpdate ==
    /\ UNCHANGED << wishVars, pcapVars, pktmonVars, appVars, playerVars >>
    /\ probe.fn = "handle_web_cache_dir_update"
    /\ result = None
    /\ result' = Some(HandleWebCacheDirUpdate(probe.st, NoRead, ExtractUrl(probe.cache),
                                              probe.resp))
    /\ UNCHANGED probe

ProbeNext ==
    \/ CallGetDataDir
    \/ CallGetWebCacheDir
    \/ CallHandleWebCacheDirUpdate

\* The lines of the log of the probe that game_data_re matches, in file order.
MatchingLines == SelectSeq(probe.log.lines, LAMBDA l : l \in ProbeDataDirs)

\* C15: on a log that can be read to its end and has lines matching the
\* pattern, get_data_dir returns the text of the last matching line.
C15_LastMatchingLine ==
    (/\ probe.fn = "get_data_dir"
     /\ result # None
     /\ probe.log.exists
     /\ \A i \in 1 .. Len(probe.log.lines) : probe.log.lines[i] # "badutf8"
     /\ MatchingLines # << >>) =>
        /\ result[1].ok
        /\ result[1].val = MatchingLines[Len(MatchingLines)]

\* The children of the webCaches folder of the probe that are directories.
SubDirectories ==
    { i \in 1 .. Len(probe.listing.entries) : probe.listing.entries[i].is_dir }

\* C16: on a webCaches folder that can be read, get_web_cache_dir returns an
\* error when no child is a directory, and otherwise returns a child that is
\* a directory and whose modification time no other directory exceeds.
C16_LatestSubdirectory ==
    (/\ probe.fn = "get_web_cache_dir"
     /\ result # None
     /\ probe.listing.readable) =>
        LET e == probe.listing.entries
        IN  /\ SubDirectories = {} => ~result[1].ok
            /\ SubDirectories # {} =>
                  /\ result[1].ok
                  /\ \E i \in SubDirectories :
                        /\ result[1].val = Some(e[i].name)
                        /\ \A j \in SubDirectories : e[j].mtime <= e[i].mtime

\* The matches of url_re in the cache file of the probe, in file order.
UrlMatches == SelectSeq(probe.cache.toks, LAMBDA t : t \in Urls)

\* C17: on a cache file with matches, the URL handle_web_cache_dir_update
\* compares, validates and publishes is the last match: if validation
\* succeeds url_tx and prev_url hold the last match, otherwise nothing
\* changes; an earlier match that differs from the last is never what the
\* call publishes.
C17_OnlyLastMatchConsidered ==
    (/\ probe.fn = "handle_web_cache_dir_update"
     /\ result # None
     /\ probe.cache.exists
     /\ UrlMatches # << >>) =>
        LET last == UrlMatches[Len(UrlMatches)]
            r == result[1]
        IN  /\ r.call.ext = Some(last)
            /\ r.call.validated <=> last # probe.st.prev_url
            /\ r.call.sent <=> (r.call.validated /\ probe.resp = "retcode_zero")
            /\ r.call.sent => (r.st.url_tx = Some(last) /\ r.st.prev_url = last)
            /\ ~r.call.sent => r.st = probe.st
            /\ \A i \in 1 .. Len(UrlMatches) - 1 :
                  (UrlMatches[i] # last /\ r.st.url_tx = Some(UrlMatches[i])) =>
                      (~r.call.sent /\ probe.st.url_tx = Some(UrlMatches[i]))

C17_Witness ==
    /\ probe.fn = "handle_web_cache_dir_update"
    /\ result # None
    /\ probe.cache.toks = << "u1", "u2" >>
    /\ probe.st.prev_url = "u1"
    /\ result[1].call.sent
    /\ result[1].st.url_tx = Some("u2")

(***************************************************************************)
(* APPLICATION: start_async_runtime. The task of the Wish monitor is       *)
(* spawned on the runtime rt; Monitor::new and Monitor::run are awaited in *)
(* the future block_on drives. When that future returns, rt goes out of    *)
(* scope, and dropping a runtime cancels the tasks spawned on it.          *)
(***************************************************************************)
AppInit ==
    /\ rt = "running"
    /\ mon = "init"

\* Where the task of the Wish monitor is after the runtime is dropped.
DropRuntime(pc) ==
    IF pc \in { "init", "created", "loop" } THEN "cancelled" ELSE pc

\* The end of the future of block_on: rt is dropped, the task of the Wish
\* monitor with it, and the Wish value (its watcher) with the task.
BlockOnReturns ==
    /\ rt' = "dropped"
    /\ wpc' = DropRuntime(wpc)
    /\ watched' = IF DropRuntime(wpc) = "cancelled" THEN {} ELSE watched
    /\ step' = NoStep("drop")
    /\ UNCHANGED << web_cache_path, prev_url, url_tx, file_events, batch, last_read >>

\* A step of the task of the Wish monitor, which the runtime drives.
WishTask ==
    /\ rt = "running"
    /\ WishNext

\* Monitor::new(..).await: the monitor, or the error after which the future
\* of block_on returns.
MonitorNew ==
    /\ UNCHANGED << pcapVars, probeVars, pktmonVars, playerVars >>
    /\ rt = "running"
    /\ mon = "init"
    /\ \E ok \in BOOLEAN :
         IF ok
         THEN /\ mon' = "running"
              /\ UNCHANGED << rt, wishVars >>
         ELSE /\ mon' = "failed"
              /\ BlockOnReturns

\* monitor.run().await returns: the future of block_on is at its end.
MonitorRunEnds ==
    /\ UNCHANGED << pcapVars, probeVars, pktmonVars, playerVars >>
    /\ rt = "running"
    /\ mon = "running"
    /\ mon' = "ended"
    /\ BlockOnReturns

AppNext ==
    \/ WishTask
    \/ MonitorNew
    \/ MonitorRunEnds

(***************************************************************************)
(* The specifications: one per component.                                  *)
(***************************************************************************)
Init == WishInit /\ PcapInit /\ ProbeIdle /\ PktmonInit /\ AppInit /\ PlayerInit

SpecPlayer == Init /\ [][PlayerNext]_vars

SpecPktmon == Init /\ [][PktmonNext]_vars

SpecApp == Init /\ [][AppNext]_vars

SpecWish == Init /\ [][WishNext]_vars

SpecPcap == Init /\ [][PcapNext]_vars

\* The components are not started; a function is about to be called.
InitProbe == WishInit /\ PcapInit /\ ProbeInit /\ PktmonInit /\ AppInit /\ PlayerInit

SpecProbe == InitProbe /\ [][ProbeNext]_vars

\* packet_tx.send on an unbounded channel never waits: a thread that holds an
\* item sends it. Nothing makes capture.next_packet() return, and nothing
\* makes the consumer call next_packet or drop the backend.
PcapFairness == \A k \in 1 .. MaxDevices : WF_vars(k <= Len(thr) /\ ThreadSend(k))

SpecPcapFair == SpecPcap /\ PcapFairness

\* The consumer keeps calling next_packet: a call that can return does.
ConsumerPolls == WF_vars(NextPacket)

SpecPcapPolled == SpecPcap /\ ConsumerPolls

\* The application is handed one backend and constructs only that one.
PcapSelected ==
    /\ pm_pc = "init"
    /\ PcapNext

PktmonSelected ==
    /\ bpc = "init"
    /\ PktmonNext

BackendNext ==
    \/ PcapSelected
    \/ PktmonSelected

SpecBackend == Init /\ [][BackendNext]_vars

\* C14 as stated: once the receiver is dropped, every capture thread
\* eventually leaves packet_loop.
C14_Original ==
    (bpc = "ok" /\ ~rx_open) ~> (Running = {})

\* C14, amended: once the receiver is dropped, a thread whose read returns
\* leaves packet_loop at the send that follows, and does so eventually; a
\* thread leaves packet_loop in no other way, so one whose read does not
\* return stays in it.
C14_ThreadExitsAtNextPush ==
    /\ \A k \in 1 .. MaxDevices :
          (k <= Len(thr) /\ bpc = "ok" /\ ~rx_open /\ thr[k].pc = "send")
              ~> (k <= Len(thr) /\ thr[k].pc = "exited")
    /\ [][\A k \in 1 .. Len(thr) :
            /\ (~rx_open /\ thr[k].pc = "send" /\ thr'[k] # thr[k]) => thr'[k].pc = "exited"
            /\ (thr[k].pc # "exited" /\ thr'[k].pc = "exited") => thr[k].pc = "send"]_vars

C14_Witness ==
    /\ bpc = "ok"
    /\ ~rx_open
    /\ Len(thr) = 2
    /\ thr[1].pc = "exited" /\ thr[1].exit = "channel closed" /\ thr[1].reads = 1
    /\ thr[2].pc = "read" /\ thr[2].reads = 0

(***************************************************************************)
(* WISH MONITOR: properties.                                               *)
(***************************************************************************)
\* The step just taken was a call of handle_web_cache_dir_update that read
\* the cache file and extracted a URL from it.
Extracted == step.call.invoked /\ step.call.ext # None

\* C1: every value sent on the URL channel is the URL that validate_url
\* accepted in the same call of handle_web_cache_dir_update; the channel's
\* value changes in no other step, and no URL whose validation failed or was
\* skipped is sent.
C1_PublishedOnlyIfValidated ==
    /\ [](step.call.sent =>
            /\ step.call.validated /\ step.call.valid
            /\ url_tx = step.call.ext)
    /\ [][url_tx' # url_tx =>
            /\ step'.call.sent /\ step'.call.validated /\ step'.call.valid
            /\ url_tx' = step'.call.ext]_vars

C1_Witness ==
    /\ step.call.sent
    /\ step.call.valid
    /\ url_tx = Some("u1")
    /\ step.call.url_tx_before = Some("u2")

\* C2: a publication never repeats the URL of the publication before it.
C2_NoRepeatedPublication ==
    step.call.sent => url_tx # step.call.url_tx_before

C2_Witness ==
    /\ step.call.sent
    /\ step.call.url_tx_before # None
    /\ url_tx # None

\* The step just taken re-read the cache file read before it and extracted
\* the same URL as that read.
SameAsPreviousRead ==
    /\ Extracted
    /\ step.call.prev_read.path = step.call.path
    /\ step.call.prev_read.url = step.call.ext

C4_UnchangedUrlDoesNothing ==
    (Extracted /\ step.call.ext = Some(step.call.prev_url_before))
        => /\ ~step.call.validated /\ ~step.call.net /\ ~step.call.sent
           /\ prev_url = step.call.prev_url_before
           /\ url_tx = step.call.url_tx_before
           /\ watched = step.call.watched_before

C4_Witness ==
    /\ Extracted
    /\ step.call.ext = Some(step.call.prev_url_before)
    /\ step.op = "cache"
    /\ step.call.path \in { Some(p) : p \in watched }

\* The events waiting are still taken: the loop is neither left nor stuck.
LoopRuns ==
    /\ wpc = "loop"
    /\ batch # << >> => ENABLED (LogEvent \/ CacheEvent \/ OtherEvent)
    /\ (batch = << >> /\ file_events # << >>) => ENABLED Recv

\* C5: when validate_url fails (the URL does not parse, the request fails,
\* the status is an error, the body is not the JSON expected, or retcode is
\* not 0), prev_url and the channel's value stay as they were and the event
\* loop goes on.
C5_ValidationFailureChangesNothing ==
    (step.call.validated /\ ~step.call.valid)
        => /\ prev_url = step.call.prev_url_before
           /\ url_tx = step.call.url_tx_before
           /\ ~step.call.sent
           /\ LoopRuns

C5_Witness ==
    /\ step.call.validated
    /\ ~step.call.valid
    /\ step.call.net
    /\ prev_url = "u1"
    /\ batch # << >>

RECURSIVE Registered(_, _, _, _)
\* The paths registered with the watcher after the first i of the operations
\* ops, from the paths W; a watch took effect if its path is in final.
Registered(W, ops, i, final) ==
    IF i = 0 THEN W
    ELSE LET before == Registered(W, ops, i - 1, final)
         IN  IF ops[i].op = "unwatch" THEN before \ { ops[i].path }
             ELSE IF ops[i].path \in final THEN before \cup { ops[i].path }
             ELSE before

\* C18: a call of handle_log_update that finds a cache path while one is
\* held first unwatches the held path and then watches the path found; the
\* two, if they differ, are at no point registered together, and the old one
\* is not registered afterwards. No two cache paths are ever registered.
C18_UnwatchBeforeWatch ==
    /\ [][(step'.op = "log" /\ step'.found /\ web_cache_path # None) =>
             LET old == web_cache_path[1]
                 new == web_cache_path'[1]
                 ops == step'.wops
             IN  /\ ops = << [ op |-> "unwatch", path |-> old ], [ op |-> "watch", path |-> new ] >>
                 /\ Registered(watched, ops, 2, watched') = watched'
                 /\ old # new =>
                       /\ \A i \in 0 .. 2 :
                             ~({ old, new } \subseteq Registered(watched, ops, i, watched'))
                       /\ old \notin watched']_vars
    /\ [](Cardinality(watched \cap CachePaths) <= 1)

C18_Witness ==
    /\ step.op = "log"
    /\ step.found
    /\ Len(step.wops) = 2
    /\ step.wops[1].path # step.wops[2].path
    /\ step.call.watched_before = { LogPath, step.wops[2].path }
    /\ watched = { LogPath, step.wops[2].path }

\* C19: the handling of an event whose path is neither the log path nor the
\* held web_cache_path calls no handler and leaves the monitor's state as it
\* was; so does the event of a cache path that has been replaced.
C19_ForeignEventDoesNothing ==
    [][(/\ wpc = "loop"
        /\ batch # << >>
        /\ batch' = Tail(batch)
        /\ Head(batch) # LogPath
        /\ web_cache_path # Some(Head(batch))) =>
           /\ UNCHANGED << wpc, web_cache_path, prev_url, url_tx, watched, last_read >>
           /\ step'.op = "other"
           /\ ~step'.call.invoked
           /\ ~step'.call.validated
           /\ ~step'.call.sent]_vars

C19_Witness ==
    /\ step.op = "other"
    /\ step.path # None
    /\ step.path[1] \in CachePaths
    /\ web_cache_path # None
    /\ web_cache_path # step.path
    /\ step.path[1] \notin watched
    /\ prev_url = ""

\* C20: web_cache_path is None until the monitor runs, and once it holds a
\* path it holds one for ever, also after a call of handle_log_update whose
\* discovery fails.
C20_CachePathNeverReverts ==
    /\ [](wpc \in { "init", "created" } => web_cache_path = None)
    /\ [][web_cache_path # None => web_cache_path' # None]_vars

C20_Witness ==
    /\ step.op = "log"
    /\ ~step.found
    /\ web_cache_path # None
    /\ web_cache_path[1] \in watched

\* A step of discovery, extraction or validation failed in the last step: the
\* log could not be watched or read, no cache directory was found, the cache
\* file could not be read, no URL matched, or validate_url returned an error.
DiscoveryStepFailed ==
    \/ step.op = "start" /\ step.err = "log_not_found"
    \/ step.op \in { "start", "log" } /\ step.err = "" /\ ~step.found
    \/ step.call.invoked /\ step.call.ret # "Ok"

\* C21: after a failed step of discovery the monitor is in its event loop:
\* it has not returned, and it takes the events that wait.
C21_DiscoveryFailureNotFatal ==
    DiscoveryStepFailed => LoopRuns

\* C22: a call of handle_log_update unwatches and watches only if the path it
\* computes differs from the web_cache_path held; if the two are equal it
\* calls neither and the registered paths stay as they were.
C22_WatchesChangeOnlyOnNewPath ==
    [][(step'.op = "log" /\ step'.found /\ web_cache_path # None
          /\ web_cache_path' = web_cache_path) =>
             (step'.wops = << >> /\ watched' = watched)]_vars

\* C23: monitor scans the log before it receives any event, and a call of
\* handle_log_update that finds a cache path reads the cache file in the same
\* call: a URL found there that differs from prev_url is validated, and
\* published if valid, with no event of the cache file handled.
C23_ProactiveDiscovery ==
    /\ (step.op = "start" /\ step.err = "") =>
          (wpc = "loop" /\ file_events = << >> /\ batch = << >>)
    /\ (step.op \in { "start", "log" } /\ step.found) =>
          /\ step.call.invoked
          /\ step.call.path = web_cache_path
          /\ step.call.path = Some(step.wops[Len(step.wops)].path)
          /\ (step.call.ext # None /\ step.call.ext # Some(step.call.prev_url_before)) =>
                step.call.validated
          /\ step.call.valid => (step.call.sent /\ url_tx = step.call.ext)

C23_Witness ==
    /\ step.op = "start"
    /\ step.found
    /\ step.call.valid
    /\ url_tx = Some("u1")
    /\ file_events = << >>
    /\ batch = << >>

\* C24: the value of the watch channel is None as long as no URL has been
\* validated (prev_url is empty); afterwards it is Some(prev_url), the URL of
\* the last successful validation; it changes only in a call that validated
\* the new value, and never goes back to None.
C24_PublishedValueIsLastValidated ==
    /\ [](url_tx = (IF prev_url = "" THEN None ELSE Some(prev_url)))
    /\ [][url_tx' # url_tx =>
             (step'.call.valid /\ url_tx' = step'.call.ext /\ url_tx' # None)]_vars
    /\ [][step'.call.valid => url_tx' = step'.call.ext]_vars

C24_Witness ==
    /\ url_tx = Some("u2")
    /\ step.call.validated
    /\ ~step.call.valid
    /\ step.call.ext = Some("u1")
    /\ step.call.url_tx_before = Some("u2")

\* C25: while monitor is in its loop the log path is registered with the
\* watcher, and no step removes it.
C25_LogWatchPersists ==
    /\ [](wpc = "loop" => LogPath \in watched)
    /\ [][(LogPath \in watched) => (LogPath \in watched')]_vars

C25_Witness ==
    /\ wpc = "loop"
    /\ step.op = "log"
    /\ step.found
    /\ Len(step.wops) = 2
    /\ step.wops[1].op = "unwatch"
    /\ LogPath \in watched
    /\ Cardinality(watched) = 2


(***************************************************************************)
(* Properties of the kernel-monitor backend (SpecPktmon).                  *)
(***************************************************************************)
CaptureNeverStarted == Some([ kind |-> "Capture", has_captured |-> FALSE ])

FilterError == Some([ kind |-> "Filter" ])

BothFilters == << PORT_RANGE[1], PORT_RANGE[2] >>

\* C28 as stated: PktmonBackend::new fails with Capture { has_captured:
\* false } whenever the session cannot be opened or one of the two port
\* filters cannot be installed, and returns a backend only when the session
\* and both filters are installed.
C28_Original ==
    /\ (pm_pc # "init" /\ ~(pm_os.session /\ pm_os.filter1 /\ pm_os.filter2)) =>
           (pm_pc = "failed" /\ pm_err = CaptureNeverStarted)
    /\ pm_pc = "ok" => pm_filters = BothFilters

\* C28, amended: PktmonBackend::new fails at the first step that fails, with
\* Capture { has_captured: false } when the session cannot be opened and with
\* Filter when the first or the second port filter cannot be installed; a
\* backend is returned only when the session is open and both filters are
\* installed, and without a backend no packet is ever handed out.
C28_FailsFast ==
    /\ (pm_pc # "init" /\ ~pm_os.session) =>
           (pm_pc = "failed" /\ pm_err = CaptureNeverStarted /\ pm_filters = << >>)
    /\ (pm_pc # "init" /\ pm_os.session /\ ~(pm_os.filter1 /\ pm_os.filter2)) =>
           (pm_pc = "failed" /\ pm_err = FilterError /\ pm_filters # BothFilters)
    /\ pm_pc = "ok" =>
           /\ pm_os.session /\ pm_os.filter1 /\ pm_os.filter2
           /\ pm_filters = BothFilters
           /\ pm_err = None
    /\ pm_pc # "ok" => (stream = << >> /\ pm_delivered = << >> /\ pm_last = "none")

\* new has failed at the second filter, the first one installed.
C28_Witness ==
    /\ pm_pc = "failed"
    /\ pm_os.session /\ pm_os.filter1 /\ ~pm_os.filter2
    /\ pm_err = FilterError
    /\ pm_filters = << PORT_RANGE[1] >>

PayloadsOf(s) == [ i \in 1 .. Len(s) |-> s[i].payload ]

\* The fused stream has terminated: the capture has ended and the stream has
\* handed out all it was given.
StreamTerminated == stream_ended /\ stream = << >>

\* C29: next_packet of the kernel-monitor backend returns CaptureClosed
\* exactly when the stream has terminated; otherwise it returns the payload
\* of the next packet of the stream, so that the payloads returned are those
\* of the packets the stream was given, in order, none skipped or repeated.
C29_NextPacketInStreamOrder ==
    /\ [](pm_last = "CaptureClosed" => StreamTerminated)
    /\ [](PayloadsOf(pm_seen) = pm_delivered \o PayloadsOf(stream))
    /\ [][(pm_last' # pm_last \/ pm_delivered' # pm_delivered \/ Len(stream') < Len(stream)) =>
            IF StreamTerminated
            THEN pm_last' = "CaptureClosed" /\ pm_delivered' = pm_delivered
            ELSE /\ stream # << >>
                 /\ pm_last' = "packet"
                 /\ pm_delivered' = Append(pm_delivered, Head(stream).payload)
                 /\ stream' = Tail(stream)]_vars
    /\ []((pm_pc = "ok" /\ (stream # << >> \/ stream_ended)) => ENABLED PktmonNextPacket)

\* Two different payloads were returned, then CaptureClosed.
C29_Witness ==
    /\ pm_last = "CaptureClosed"
    /\ Len(pm_delivered) >= 2
    /\ pm_delivered[1] # pm_delivered[2]
    /\ PayloadsOf(pm_seen) = pm_delivered

(***************************************************************************)
(* Properties of the application (SpecApp).                                *)
(***************************************************************************)
\* C30: the Wish monitor and the capture monitor are independent producers:
\* Monitor::new failing or Monitor::run ending does not stop the task of the
\* Wish monitor, and Wish::new or Wish::monitor failing does not keep the
\* capture monitor from being started or from running.
C30_IndependentProducers ==
    /\ mon \in { "failed", "ended" } => wpc # "cancelled"
    /\ (wpc \in { "failed", "returned" } /\ mon \in { "init", "running" }) => rt = "running"


(***************************************************************************)
(* More properties of the Wish monitor (SpecWish).                         *)
(***************************************************************************)
\* C31: between event handlings, whenever web_cache_path is Some(p), p is
\* registered with the watcher, also when the cache file did not exist when
\* its path was discovered.
C31_CachePathIsWatched ==
    (wpc = "loop" /\ web_cache_path # None) => web_cache_path[1] \in watched

CurrentPaths ==
    { LogPath } \cup (IF web_cache_path = None THEN {} ELSE { web_cache_path[1] })

\* C32: whatever sequence of log changes pointed at whatever session
\* directories, the paths registered with the watcher are among the log path
\* and the current web_cache_path: registrations do not accumulate.
C32_WatchesDoNotAccumulate == watched \subseteq CurrentPaths

\* A log change has replaced a watched cache path by another one.
C32_Witness ==
    /\ step.op = "log"
    /\ step.found
    /\ Len(step.wops) = 2
    /\ step.wops[1].op = "unwatch"
    /\ step.wops[1].path # step.wops[2].path
    /\ step.call.watched_before = { LogPath, step.wops[2].path }
    /\ watched = { LogPath, web_cache_path[1] }

\* C33: a handle_log_update whose discovery fails returns before touching
\* state: web_cache_path, the registrations, prev_url and the published value
\* are as before, so a cache file discovered earlier stays watched.
C33_FailedDiscoveryChangesNothing ==
    [][(step'.op = "log" /\ ~step'.found) =>
          /\ UNCHANGED << web_cache_path, watched, prev_url, url_tx >>
          /\ step'.wops = << >>
          /\ ~step'.call.invoked]_vars

\* A discovery has failed with a cache file watched and a URL published.
C33_Witness ==
    /\ step.op = "log"
    /\ ~step.found
    /\ web_cache_path # None
    /\ web_cache_path[1] \in watched
    /\ url_tx # None

HandlerFailed ==
    \/ step.op = "log" /\ ~step.found
    \/ step.op \in { "log", "cache" } /\ step.call.invoked /\ step.call.ret # "Ok"

\* C34: the loop of monitor ends only by receiving an error batch of the
\* watcher (the channel cannot close before, its sender being the monitor's
\* own debouncer); monitor then returns Ok(()) and nothing is published
\* afterwards. An Err of a handler never ends the loop, and the events left
\* of the batch are still handled.
C34_LoopEndsOnlyOnErrorBatch ==
    /\ [][(wpc = "loop" /\ step'.op = "recv") =>
            (wpc' = IF Head(file_events).ok THEN "loop" ELSE "returned")]_vars
    /\ [][(wpc = "loop" /\ wpc' # "loop") =>
            (step'.op = "recv" /\ ~Head(file_events).ok /\ wpc' = "returned")]_vars
    /\ [][(wpc = "returned") => (wpc' = "returned" /\ url_tx' = url_tx)]_vars
    /\ [](HandlerFailed => wpc = "loop")
    /\ [][(step'.op \in { "log", "cache", "other" }) => (batch' = Tail(batch))]_vars
    /\ []((wpc = "loop" /\ batch # << >>) => ENABLED (LogEvent \/ CacheEvent \/ OtherEvent))

\* A handler has failed on the first event of a batch, with an event left.
C34_Witness ==
    /\ HandlerFailed
    /\ batch # << >>
    /\ wpc = "loop"


(***************************************************************************)
(* More properties of the capture backends.                                *)
(***************************************************************************)
\* C35: CaptureClosed is absorbing for both backends: once next_packet has
\* returned it, a later call on the same backend can return, and returns
\* CaptureClosed again, never a packet.
C35_CaptureClosedAbsorbing ==
    /\ []((last_ret = "CaptureClosed" /\ rx_open) =>
            NextPacketOf(packet_q, thr) = [ ready |-> TRUE, ret |-> None, q |-> packet_q ])
    /\ [][(last_ret = "CaptureClosed") =>
            (last_ret' = "CaptureClosed" /\ delivered' = delivered)]_vars
    /\ [](pm_last = "CaptureClosed" =>
            PktmonNextPacketOf(stream, stream_ended) =
                [ ready |-> TRUE, ret |-> None, stream |-> stream ])
    /\ [][(pm_last = "CaptureClosed") =>
            (pm_last' = "CaptureClosed" /\ pm_delivered' = pm_delivered)]_vars

\* The multi-device backend has returned CaptureClosed after a packet and
\* can be called again.
C35_Witness ==
    /\ last_ret = "CaptureClosed"
    /\ rx_open
    /\ \E i \in 1 .. Len(delivered) : delivered[i].kind = "pkt"
    /\ ENABLED NextPacket

\* In seq, nothing of a device comes after an error item of that device.
ErrorIsLast(seq) ==
    \A i, j \in 1 .. Len(seq) :
        (i < j /\ seq[i].kind = "err") => seq[j].dev # seq[i].dev

\* C36: the error item a thread enqueues is the last item it enqueues: no
\* packet of a device is returned by next_packet after that device's error.
C36_ErrorItemIsLast ==
    /\ ErrorIsLast(enq)
    /\ ErrorIsLast(delivered)
    /\ \A k \in 1 .. Len(thr) : ErrorsOf(enq, thr[k].dev) # << >> => thr[k].pc = "exited"

\* A device's packet, then its error, then another device's packet were
\* returned.
C36_Witness ==
    /\ Len(delivered) >= 3
    /\ delivered[1].kind = "pkt"
    /\ delivered[2].kind = "err"
    /\ delivered[2].dev = delivered[1].dev
    /\ delivered[3].kind = "pkt"

\* C37: once every capture thread has terminated, a consumer that keeps
\* calling next_packet gets the queued items and then CaptureClosed; it
\* does not wait for ever (unless it has dropped the backend).
C37_ClosedAfterThreadsEnd ==
    /\ []((bpc = "ok" /\ rx_open /\ Running = {}) => ENABLED NextPacket)
    /\ (bpc = "ok" /\ Running = {}) ~> (last_ret = "CaptureClosed" \/ ~rx_open)

\* Both threads have ended, what they queued was returned, then CaptureClosed.
C37_Witness ==
    /\ last_ret = "CaptureClosed"
    /\ rx_open
    /\ Len(thr) = 2
    /\ delivered = enq
    /\ Len(delivered) >= 2


(***************************************************************************)
(* Properties of the player data (SpecPlayer).                             *)
(***************************************************************************)
\* Whether avatar i of the most recent call lists guid g.
Lists(i, g) ==
    \E n \in 1 .. Len(characters[i].equip_guid_list) : characters[i].equip_guid_list[n] = g

\* C38: after any sequence of process_characters calls,
\* character_equip_guid_map holds exactly the guids the avatars of the most
\* recent call list, each mapped to the id of the last avatar (in input
\* order) that lists it; no entry of an earlier call survives.
C38_MapIsOfLastCall ==
    /\ DOMAIN character_equip_guid_map =
           { g \in Guids : \E i \in 1 .. Len(characters) : Lists(i, g) }
    /\ \A g \in DOMAIN character_equip_guid_map :
           \E i \in 1 .. Len(characters) :
               /\ Lists(i, g)
               /\ \A j \in 1 .. Len(characters) : (j > i) => ~Lists(j, g)
               /\ character_equip_guid_map[g] = characters[i].avatar_id

\* Two avatars of the call list guid 1, only the first lists guid 2.
C38_Witness ==
    /\ Len(characters) = 2
    /\ characters[1].avatar_id # characters[2].avatar_id
    /\ characters[1].equip_guid_list = << 1, 2 >>
    /\ characters[2].equip_guid_list = << 1 >>
    /\ character_equip_guid_map[1] = characters[2].avatar_id
    /\ character_equip_guid_map[2] = characters[1].avatar_id

\* C39: the exported level of every artifact is the reported level minus
\* one, computed without unsigned underflow: an artifact reported at level 0
\* neither wraps to a huge level nor aborts the export.
C39_LevelWithoutUnderflow ==
    exported # None =>
        /\ ~exported[1].result.panicked
        /\ \A n \in 1 .. Len(exported[1].result.artifacts) :
               LET a == exported[1].result.artifacts[n]
               IN  /\ items[a.item].level # U32(0, 0)
                   /\ a.level # U32_MAX
                   /\ a.level = WrappingSubOne(items[a.item].level)

=============================================================================
